---- MODULE Spec2Model ----
(***************************************************************************)
(* DocuHelp core: the frame sampler (vlm/video_processor.py,               *)
(* extract_frames_from_video) and the phase reconstructor                  *)
(* (vlm/inference.py, parse_vlm_response).                                 *)
(*                                                                         *)
(* Time.  A native frame n of a video with video_fps frames per second has *)
(* the exact timestamp n / video_fps.  The model counts time in ticks of   *)
(* 1 / TicksPerSecond seconds, TicksPerSecond being a common multiple of   *)
(* the frame rates drawn, so that every timestamp and every                *)
(* min_time_separation drawn is a whole number of ticks and every          *)
(* comparison of the code is exact.  TicksPerSecond is a power of two, so  *)
(* the same values are exact as binary floating point numbers and          *)
(* round(timestamp, 2) is the decimal round-half-even that Round2 computes.*)
(* Stored timestamps (the "timestamp" field of a returned frame) are in    *)
(* hundredths of a second, which is what round(_, 2) leaves.               *)
(***************************************************************************)
EXTENDS Integers, Sequences, FiniteSets, TLC

VARIABLES
    \* ---- extract_frames_from_video ----
    cap,                      \* the video: [opened, video_fps, total_frames]
    args,                     \* the call's arguments
    pc,                       \* position of the call
    frame_indices,            \* capped mode: candidate positions
    cand,                     \* capped mode: index of the next candidate in frame_indices
    frame_interval,           \* rate mode: native frames between candidates
    frame_count,              \* rate mode: frames read so far
    last_read,                \* the last decoded position and its raster
    frames_data,              \* accepted frames
    previous_frames,          \* rasters retained for duplicate detection
    filtered_count,           \* rejections per filter
    last_accepted_timestamp,  \* in ticks
    \* ---- parse_vlm_response ----
    summary_text,             \* raw response: NoneText or a sequence of lines
    frames,                   \* supplied frame records
    ppc,                      \* position of the parse
    lines,                    \* clean_text.split('\n')
    ln,                       \* index of the next line
    phases,                   \* finalized phases
    current_phase,            \* the phase being accumulated, or NoPhase
    in_phase_section,
    used_frame_indices,
    path,                     \* which return statement produced the result
    result,                   \* returned phase list
    \* ---- two invocations of parse_vlm_response ----
    running,                  \* the invocation whose locals the variables above hold
    suspended,                \* the locals of the invocation that is not running
    alone,                    \* per invocation, the outcome of its call run alone
    switches,                 \* switches between the invocations during their second calls
    overlapped,               \* a switch has left both invocations in the middle of a call
    \* ---- the video routes and the metadata store ----
    store,                    \* per video id, the metadata file's content
    task,                     \* per video id, the position of process_video_with_vlm
    response,                 \* the last response a route has sent
    faults,                   \* update_metadata calls that have returned False
    \* ---- OpenRouterVLM.analyze_video_frames ----
    rpc,                      \* position of the call
    attempt,                  \* the retry loop's variable
    calls,                    \* calls of the model API made
    slept,                    \* the delays slept, in seconds
    errors                    \* the messages of the errors the API has raised
svars == <<cap, args, pc, frame_indices, cand, frame_interval, frame_count, last_read,
           frames_data, previous_frames, filtered_count, last_accepted_timestamp>>
pvars == <<summary_text, frames, ppc, lines, ln, phases, current_phase,
           in_phase_section, used_frame_indices, path, result>>
hvars == <<running, suspended, alone, switches, overlapped>>
uvars == <<store, task, response, faults>>
rvars == <<rpc, attempt, calls, slept, errors>>
wvars == <<uvars, rvars>>
vars == <<svars, pvars, hvars, wvars>>

VideoIds == {"a", "b"}
\* get_metadata returns None: there is no metadata file
NoMetadata == [status |-> "none", processed |-> FALSE, vlm_phases |-> FALSE,
               error_message |-> FALSE]
NoResponse == [endpoint |-> "none", video_id |-> "none", found |-> FALSE, code |-> 0]

\* no upload yet, no request answered
ServiceIdle ==
    /\ store = [v \in VideoIds |-> NoMetadata]
    /\ task = [v \in VideoIds |-> "none"]
    /\ response = NoResponse
    /\ faults = 0
\* analyze_video_frames not called yet
RetryIdle ==
    /\ rpc = "idle"
    /\ attempt = 0
    /\ calls = 0
    /\ slept = <<>>
    /\ errors = <<>>

(***************************************************************************)
(* Bounds of the model.                                                    *)
(***************************************************************************)
MaxTotalFrames == 7
MaxMaxFrames == 2

\* max_frames = None
NoneInt == -1
VideoFpsSet == {1, 8}
TicksPerSecond == CHOOSE n \in VideoFpsSet : \A m \in VideoFpsSet : n % m = 0
SampleFpsSet == {1, 2}
\* min_time_separation, in ticks: 0 s, 0.375 s
MinSeparationSet == {0, 3}

(***************************************************************************)
(* Rasters.  A decoded frame is known to the code through four image       *)
(* statistics and its colour histogram; a raster of the model is those.    *)
(* edge_ratio is in percent.  The histogram has three bins instead of      *)
(* 8 x 8 x 8.                                                              *)
(***************************************************************************)
HistA == <<3, 1, 0>>
HistB == <<3, 0, 0>>
HistC == <<3, 0, 1>>
Tissue(h) == [edge_ratio |-> 5, std_dev |-> 60, s_std |-> 40, v_mean |-> 120, hist |-> h]
TitleCard == [edge_ratio |-> 20, std_dev |-> 30, s_std |-> 25, v_mean |-> 100, hist |-> HistB]
BlankScreen == [edge_ratio |-> 0, std_dev |-> 5, s_std |-> 5, v_mean |-> 10, hist |-> HistB]
Rasters == {Tissue(HistA), Tissue(HistC), TitleCard, BlankScreen}
\* cap.read() returned ret = False
NoRaster == [edge_ratio |-> 0, std_dev |-> 0, s_std |-> 0, v_mean |-> 0, hist |-> <<0, 0, 0>>]

Sum3(h) == h[1] + h[2] + h[3]
\* bin i of h, centred on the mean and scaled by the number of bins
Centred(h, i) == 3 * h[i] - Sum3(h)
Dot(g, h) == Centred(g, 1) * Centred(h, 1) + Centred(g, 2) * Centred(h, 2)
             + Centred(g, 3) * Centred(h, 3)

DuplicateThreshold == 85

\* cv2.compareHist(_, _, HISTCMP_CORREL) > threshold, threshold in hundredths.
\* The correlation is num / sqrt(denom2), and 1 when denom2 is zero.
Similar(g, h) ==
    LET num == Dot(g, h)
        denom2 == Dot(g, g) * Dot(h, h)
    IN  IF denom2 = 0 THEN 100 > DuplicateThreshold
        ELSE /\ num > 0
             /\ 100 * 100 * num * num > DuplicateThreshold * DuplicateThreshold * denom2

\* is_duplicate_frame against the last retained raster only
is_duplicate_frameLastOnly(frame, prev) ==
    /\ prev # <<>>
    /\ Similar(frame.hist, prev[Len(prev)].hist)
is_duplicate_frame(frame, prev) ==
    /\ prev # <<>>
    /\ \E k \in 1..Len(prev) : Similar(frame.hist, prev[k].hist)

has_too_much_text(frame) == frame.edge_ratio > 15 /\ frame.std_dev < 40

is_likely_surgical_content(frame) ==
    /\ frame.s_std > 20
    /\ 30 < frame.v_mean /\ frame.v_mean < 240

(***************************************************************************)
(* Timestamps.                                                             *)
(***************************************************************************)
\* frame_number / video_fps, in ticks
Timestamp(frame_number) == frame_number * (TicksPerSecond \div cap.video_fps)

\* round(timestamp, 2) of a timestamp in ticks, in hundredths of a second
Round2(t) ==
    LET q == (t * 100) \div TicksPerSecond
        r == (t * 100) % TicksPerSecond
    IN  IF 2 * r < TicksPerSecond THEN q
        ELSE IF 2 * r > TicksPerSecond THEN q + 1
        ELSE IF q % 2 = 0 THEN q ELSE q + 1

\* Python truth value of max_frames
Truthy(n) == n # NoneInt /\ n # 0

Max(a, b) == IF a >= b THEN a ELSE b
Min(a, b) == IF a <= b THEN a ELSE b

(***************************************************************************)
(* extract_frames_from_video                                               *)
(***************************************************************************)
SamplerArgs ==
    [fps : SampleFpsSet,
     max_frames : {NoneInt} \cup (0..MaxMaxFrames),
     filter_text : BOOLEAN,
     filter_duplicates : BOOLEAN,
     min_time_separation : MinSeparationSet]

Videos ==
    {[opened |-> FALSE, video_fps |-> 1, total_frames |-> 0]}
    \cup [opened : {TRUE}, video_fps : VideoFpsSet, total_frames : 0..MaxTotalFrames]

NothingRead == [pos |-> -1, raster |-> NoRaster]

\* one invocation only
HarnessIdle ==
    /\ running = 0
    /\ suspended = <<>>
    /\ alone = <<>>
    /\ switches = 0
    /\ overlapped = FALSE

ParserIdle ==
    /\ HarnessIdle
    /\ ServiceIdle
    /\ RetryIdle
    /\ summary_text = <<>>
    /\ frames = <<>>
    /\ ppc = "idle"
    /\ lines = <<>>
    /\ ln = 0
    /\ phases = <<>>
    /\ current_phase = <<>>
    /\ in_phase_section = FALSE
    /\ used_frame_indices = {}
    /\ path = "none"
    /\ result = <<>>

SamplerInit ==
    /\ cap \in Videos
    /\ args \in SamplerArgs
    /\ pc = "call"
    /\ frame_indices = <<>>
    /\ cand = 1
    /\ frame_interval = 0
    /\ frame_count = 0
    /\ last_read = NothingRead
    /\ frames_data = <<>>
    /\ previous_frames = <<>>
    /\ filtered_count = [text |-> 0, duplicate |-> 0, time_separation |-> 0]
    /\ last_accepted_timestamp = 0
    /\ ParserIdle

extraction_multiplier == IF args.filter_text \/ args.filter_duplicates THEN 5 ELSE 2
candidate_count == args.max_frames * extraction_multiplier
\* int(min_time_separation * video_fps)
min_frame_interval == (args.min_time_separation * cap.video_fps) \div TicksPerSecond

RECURSIVE BuildIndicesPrevCandidate(_, _)
\* the candidate list, each candidate compared with the candidate generated before it
BuildIndicesPrevCandidate(i, acc) ==
    IF i >= candidate_count THEN acc
    ELSE LET frame_idx == (i * cap.total_frames) \div candidate_count
             before == ((i - 1) * cap.total_frames) \div candidate_count
         IN  BuildIndicesPrevCandidate(i + 1,
                 IF acc = <<>> \/ frame_idx - before >= min_frame_interval
                 THEN Append(acc, frame_idx) ELSE acc)

\* the candidate list of capped mode, built for i = i0 .. candidate_count - 1
RECURSIVE BuildIndices(_, _)
BuildIndices(i, acc) ==
    IF i >= candidate_count THEN acc
    ELSE LET frame_idx == (i * cap.total_frames) \div candidate_count
         IN  BuildIndices(i + 1,
                 IF acc = <<>> \/ frame_idx - acc[Len(acc)] >= min_frame_interval
                 THEN Append(acc, frame_idx) ELSE acc)

\* max(int(video_fps / fps), int(min_time_separation * video_fps))
RateInterval == Max(cap.video_fps \div args.fps, min_frame_interval)

\* the call going on without the tests of exists() and isOpened()
OpenUnchecked ==
    /\ pc = "call"
    /\ last_accepted_timestamp' = -args.min_time_separation
    /\ IF Truthy(args.max_frames)
       THEN /\ frame_indices' = BuildIndices(0, <<>>)
            /\ pc' = "capped"
            /\ UNCHANGED frame_interval
       ELSE /\ frame_interval' = RateInterval
            /\ pc' = "rate"
            /\ UNCHANGED frame_indices
    /\ UNCHANGED <<cap, args, cand, frame_count, last_read, frames_data,
                   previous_frames, filtered_count>>
    /\ UNCHANGED <<pvars, hvars, wvars>>

\* Path(video_path).exists(), cap.isOpened(), the video properties and the choice of mode
Open ==
    /\ pc = "call"
    /\ IF ~cap.opened
       THEN /\ pc' = "raised"
            /\ UNCHANGED <<frame_indices, frame_interval, last_accepted_timestamp>>
       ELSE /\ last_accepted_timestamp' = -args.min_time_separation
            /\ IF Truthy(args.max_frames)
               THEN /\ frame_indices' = BuildIndices(0, <<>>)
                    /\ pc' = "capped"
                    /\ UNCHANGED frame_interval
               ELSE /\ frame_interval' = RateInterval
                    /\ pc' = "rate"
                    /\ UNCHANGED frame_indices
    /\ UNCHANGED <<cap, args, cand, frame_count, last_read, frames_data,
                   previous_frames, filtered_count>>
    /\ UNCHANGED <<pvars, hvars, wvars>>

\* the filters of the acceptance pipeline, in the code's order
Verdict(timestamp, frame) ==
    IF timestamp - last_accepted_timestamp < args.min_time_separation THEN "time_separation"
    ELSE IF args.filter_text /\ has_too_much_text(frame) THEN "text"
    ELSE IF args.filter_text /\ ~is_likely_surgical_content(frame) THEN "text"
    ELSE IF args.filter_duplicates /\ is_duplicate_frame(frame, previous_frames)
         THEN "duplicate"
    ELSE "accept"

\* the record appended to frames_data
FrameRecord(frame_number, frame) ==
    [timestamp |-> Round2(Timestamp(frame_number)),
     frame_number |-> frame_number,
     base64_image |-> frame]

\* the pipeline retaining the raster of every accepted frame, dedup on or off
ScreenRetainAlways(frame_number, frame) ==
    LET timestamp == Timestamp(frame_number)
        verdict == Verdict(timestamp, frame)
    IN  IF verdict = "accept"
        THEN /\ frames_data' = Append(frames_data, FrameRecord(frame_number, frame))
             /\ last_accepted_timestamp' = timestamp
             /\ previous_frames' = Append(previous_frames, frame)
             /\ UNCHANGED filtered_count
        ELSE /\ filtered_count' = [filtered_count EXCEPT ![verdict] = @ + 1]
             /\ UNCHANGED <<frames_data, last_accepted_timestamp, previous_frames>>

\* one decoded candidate through the pipeline
Screen(frame_number, frame) ==
    LET timestamp == Timestamp(frame_number)
        verdict == Verdict(timestamp, frame)
    IN  IF verdict = "accept"
        THEN /\ frames_data' = Append(frames_data, FrameRecord(frame_number, frame))
             /\ last_accepted_timestamp' = timestamp
             /\ previous_frames' = IF args.filter_duplicates
                                   THEN Append(previous_frames, frame)
                                   ELSE previous_frames
             /\ UNCHANGED filtered_count
        ELSE /\ filtered_count' = [filtered_count EXCEPT ![verdict] = @ + 1]
             /\ UNCHANGED <<frames_data, last_accepted_timestamp, previous_frames>>

\* what cap.read() can give at a position: the same as the last time when the
\* position was just read, nothing beyond the end of the video
Readable(pos) ==
    IF pos = last_read.pos THEN {last_read.raster}
    ELSE IF pos >= cap.total_frames THEN {NoRaster}
    ELSE Rasters \cup {NoRaster}

\* capped mode, one iteration of "for frame_number in frame_indices"
CappedCandidate ==
    /\ pc = "capped"
    /\ cand <= Len(frame_indices)
    /\ Len(frames_data) < args.max_frames
    /\ LET frame_number == frame_indices[cand]
       IN  \E frame \in Readable(frame_number) :
             /\ last_read' = [pos |-> frame_number, raster |-> frame]
             /\ IF frame = NoRaster
                THEN UNCHANGED <<frames_data, last_accepted_timestamp, previous_frames,
                                 filtered_count>>
                ELSE Screen(frame_number, frame)
    /\ cand' = cand + 1
    /\ UNCHANGED <<cap, args, pc, frame_indices, frame_interval, frame_count>>
    /\ UNCHANGED <<pvars, hvars, wvars>>

\* capped mode, the loop ends: the cap is reached or the candidates are exhausted
CappedReturn ==
    /\ pc = "capped"
    /\ cand > Len(frame_indices) \/ Len(frames_data) >= args.max_frames
    /\ pc' = "returned"
    /\ UNCHANGED <<cap, args, frame_indices, cand, frame_interval, frame_count, last_read,
                   frames_data, previous_frames, filtered_count, last_accepted_timestamp>>
    /\ UNCHANGED <<pvars, hvars, wvars>>

\* rate mode, one iteration of "while True" whose read succeeds
RateRead ==
    /\ pc = "rate"
    /\ frame_interval # 0
    /\ \E frame \in Readable(frame_count) \ {NoRaster} :
         /\ last_read' = [pos |-> frame_count, raster |-> frame]
         /\ IF frame_count % frame_interval = 0
            THEN Screen(frame_count, frame)
            ELSE UNCHANGED <<frames_data, last_accepted_timestamp, previous_frames,
                             filtered_count>>
    /\ frame_count' = frame_count + 1
    /\ UNCHANGED <<cap, args, pc, frame_indices, cand, frame_interval>>
    /\ UNCHANGED <<pvars, hvars, wvars>>

\* rate mode, frame_count % frame_interval with frame_interval = 0: ZeroDivisionError
RateDivideByZero ==
    /\ pc = "rate"
    /\ frame_interval = 0
    /\ Readable(frame_count) # {NoRaster}
    /\ pc' = "raised"
    /\ UNCHANGED <<cap, args, frame_indices, cand, frame_interval, frame_count, last_read,
                   frames_data, previous_frames, filtered_count, last_accepted_timestamp>>
    /\ UNCHANGED <<pvars, hvars, wvars>>

\* rate mode, the read fails: break
RateBreak ==
    /\ pc = "rate"
    /\ NoRaster \in Readable(frame_count)
    /\ last_read' = [pos |-> frame_count, raster |-> NoRaster]
    /\ pc' = "returned"
    /\ UNCHANGED <<cap, args, frame_indices, cand, frame_interval, frame_count,
                   frames_data, previous_frames, filtered_count, last_accepted_timestamp>>
    /\ UNCHANGED <<pvars, hvars, wvars>>

SamplerNext ==
    \/ Open
    \/ CappedCandidate
    \/ CappedReturn
    \/ RateRead
    \/ RateDivideByZero
    \/ RateBreak

SamplerSpec == SamplerInit /\ [][SamplerNext]_vars

(***************************************************************************)
(* parse_vlm_response                                                      *)
(*                                                                         *)
(* Text.  A string is a sequence of tokens, the maximal runs of            *)
(* non-blank characters, and a text is a sequence of lines.  The regular   *)
(* expressions of the code are read on tokens: the tables below say, for   *)
(* each token of the vocabulary, what each pattern does to it.  Seconds    *)
(* fields of a phase are in hundredths of a second, the unit of a frame's  *)
(* timestamp.                                                              *)
(***************************************************************************)
ProcedureHeader == "**PROCEDURE OVERVIEW**"
PhasesHeader == "**SURGICAL PHASES**"
\* section_headers, without SURGICAL PHASES
OtherHeaders == {"**PROCEDURE OVERVIEW**", "**CLINICAL OBSERVATIONS**",
                 "**ACCOUNTABILITY MARKERS**", "**TECHNICAL QUALITY**",
                 "**PROCEDURE-SPECIFIC**"}
NumberMarkers == {"1.", "2.", "3."}
BoldLabels == {"**Timestamp Range**:", "**Key Timestamp**:"}
\* the last one runs backwards: the pattern accepts it all the same
RangeTokens == {"0:00-0:45", "0:45-1:30", "1:30-2:15", "0:45-0:00"}
TimestampTokens == {"0:23", "1:08"}
Greetings == {"Okay,"}

\* the groups of timestamp_pattern on a range token
RangeFields(tok) ==
    CASE tok = "0:00-0:45" -> <<0, 0, 0, 45>>
      [] tok = "0:45-1:30" -> <<0, 45, 1, 30>>
      [] tok = "1:30-2:15" -> <<1, 30, 2, 15>>
      [] tok = "0:45-0:00" -> <<0, 45, 0, 0>>

\* the token begins with **PROCEDURE
StartsProcedure(tok) == tok \in {"**PROCEDURE OVERVIEW**", "**PROCEDURE-SPECIFIC**"}
StartsBold(tok) == tok \in OtherHeaders \cup {PhasesHeader} \cup BoldLabels \cup {"**"}
EndsBold(tok) == tok \in OtherHeaders \cup {PhasesHeader} \cup {"**"}
\* what line 267 leaves of a timestamp at the start of a line
Residues == {":23", ":08"}
\* the token begins with one of . , ; :
StartsPunctuation(tok) == tok \in Residues
\* the one blank a removed range or emphasis mark leaves in the string
Blank == " "

\* re.sub(r'^[\d\.\-\*\#\>\s]+', '', _) on a string that begins with the token:
\* what is left of the token
LeadStrip(tok) ==
    CASE tok \in NumberMarkers -> ""
      [] tok = "**Timestamp Range**:" -> "Timestamp Range**:"
      [] tok = "**Key Timestamp**:" -> "Key Timestamp**:"
      [] tok \in {"-", "**"} -> ""
      [] tok = "**SURGICAL PHASES**" -> "SURGICAL PHASES**"
      [] tok = "**PROCEDURE OVERVIEW**" -> "PROCEDURE OVERVIEW**"
      [] tok = "**CLINICAL OBSERVATIONS**" -> "CLINICAL OBSERVATIONS**"
      [] tok = "**ACCOUNTABILITY MARKERS**" -> "ACCOUNTABILITY MARKERS**"
      [] tok = "**TECHNICAL QUALITY**" -> "TECHNICAL QUALITY**"
      [] tok = "**PROCEDURE-SPECIFIC**" -> "PROCEDURE-SPECIFIC**"
      [] tok = "0:23" -> ":23"
      [] tok = "1:08" -> ":08"
      [] tok = "0:00-0:45" -> ":00-0:45"
      [] tok = "0:45-1:30" -> ":45-1:30"
      [] tok = "1:30-2:15" -> ":30-2:15"
      [] tok = "0:45-0:00" -> ":45-0:00"
      [] OTHER -> tok

\* the label pattern of line 269 on a string that begins with the token
LabelStrip(tok) ==
    CASE tok = "Key Timestamp**:" -> ""
      [] tok = "Timestamp Range**:" -> "Range**:"
      [] tok = "Description:" -> ""
      [] OTHER -> tok

\* desc.replace('**', '')
Unbold(tok) ==
    CASE tok = "Range**:" -> "Range:"
      [] tok = "**" -> ""
      [] OTHER -> tok

\* desc[0].upper() + desc[1:]
Capitalize(tok) ==
    CASE tok = "incision" -> "Incision"
      [] tok = "closure" -> "Closure"
      [] tok = "ready" -> "Ready"
      [] tok = "note" -> "Note"
      [] tok = "note:23" -> "Note:23"
      [] OTHER -> tok

RECURSIVE CharLen(_)
\* len of the string: the tokens and one separator between two tokens
CharLen(str) ==
    IF str = <<>> THEN 0
    ELSE Len(Head(str)) + (IF Len(str) > 1 THEN 1 ELSE 0) + CharLen(Tail(str))

RECURSIVE Truncate(_, _)
\* str[:n], to whole tokens
Truncate(str, n) ==
    IF str = <<>> \/ Len(Head(str)) > n THEN <<>>
    ELSE <<Head(str)>> \o Truncate(Tail(str), n - Len(Head(str)) - 1)

RECURSIVE Join(_, _)
\* sep.join(strs)
Join(strs, sep) ==
    IF strs = <<>> THEN <<>>
    ELSE IF Len(strs) = 1 THEN strs[1]
    ELSE strs[1] \o sep \o Join(Tail(strs), sep)

(***************************************************************************)
(* Preprocessing (lines 166-176).                                          *)
(***************************************************************************)
IsProcedureLine(line) == line # <<>> /\ StartsProcedure(line[1])
IsGreeting(line) == line # <<>> /\ line[1] \in Greetings

\* re.sub(r'^.*?(?=\*\*PROCEDURE)', '', _, DOTALL | MULTILINE): every match runs from
\* a line start to the next **PROCEDURE, so all that precedes the last one goes
StripPreamble(text) ==
    LET procs == {k \in 1..Len(text) : IsProcedureLine(text[k])}
    IN  IF procs = {} THEN text
        ELSE LET last == CHOOSE k \in procs : \A j \in procs : j <= k
             IN  SubSeq(text, last, Len(text))

\* the greeting patterns: the line up to its newline goes, so the last line stays
StripGreetings(text) ==
    [k \in 1..Len(text) |->
        IF IsGreeting(text[k]) /\ k < Len(text) THEN <<>> ELSE text[k]]

Preprocess(text) == StripGreetings(StripPreamble(text))

(***************************************************************************)
(* Key-frame binding.                                                      *)
(***************************************************************************)
Abs(x) == IF x < 0 THEN -x ELSE x

\* the last of the nearest instead of the first
ClosestLastOnTies(fs, candidates, target2) ==
    CHOOSE i \in candidates :
        \A j \in candidates :
            LET di == Abs(2 * fs[i].timestamp - 100 * target2)
                dj == Abs(2 * fs[j].timestamp - 100 * target2)
            IN  di < dj \/ (di = dj /\ i >= j)
\* min(candidates, key = |timestamp - target|): the first of the nearest.
\* target2 is twice the target, in seconds.
Closest(fs, candidates, target2) ==
    CHOOSE i \in candidates :
        \A j \in candidates :
            LET di == Abs(2 * fs[i].timestamp - 100 * target2)
                dj == Abs(2 * fs[j].timestamp - 100 * target2)
            IN  di < dj \/ (di = dj /\ i <= j)

\* find_closest_frame: [raised, index (0 for None), used]
find_closest_frameNoReuse(fs, target2, used) ==
    LET available == (1..Len(fs)) \ used
    IN  IF fs = <<>> \/ available = {} THEN [raised |-> FALSE, index |-> 0, used |-> used]
        ELSE IF \E i \in available : ~fs[i].has_timestamp
        THEN [raised |-> TRUE, index |-> 0, used |-> used]
        ELSE LET i == Closest(fs, available, target2)
             IN  [raised |-> FALSE, index |-> i, used |-> used \cup {i}]
find_closest_frame(fs, target2, used) ==
    LET available == (1..Len(fs)) \ used
    IN  IF fs = <<>> THEN [raised |-> FALSE, index |-> 0, used |-> used]
        ELSE IF available = {}
        THEN IF \E i \in 1..Len(fs) : ~fs[i].has_timestamp
             THEN [raised |-> TRUE, index |-> 0, used |-> used]
             ELSE [raised |-> FALSE, index |-> Closest(fs, 1..Len(fs), target2),
                   used |-> used]
        ELSE IF \E i \in available : ~fs[i].has_timestamp
        THEN [raised |-> TRUE, index |-> 0, used |-> used]
        ELSE LET i == Closest(fs, available, target2)
             IN  [raised |-> FALSE, index |-> i, used |-> used \cup {i}]

TwoDigits(n) == (IF n < 10 THEN "0" ELSE "") \o ToString(n)
\* format_timestamp of a time in hundredths of a second
format_timestamp(h) == ToString(h \div 6000) \o ":" \o TwoDigits((h % 6000) \div 100)

NoneValue == "None"
NoPhase == <<>>

(***************************************************************************)
(* The structural scan (lines 198-281).                                    *)
(***************************************************************************)
HasToken(line, toks) == \E k \in 1..Len(line) : line[k] \in toks
\* re.search(timestamp_pattern, line).group(0)
FirstRange(line) ==
    line[CHOOSE k \in 1..Len(line) :
            /\ line[k] \in RangeTokens
            /\ \A j \in 1..(k - 1) : line[j] \notin RangeTokens]

\* re.match(r'^\d+\.\s*\*\*', line)
IsNumberedBold(line) ==
    /\ Len(line) >= 2
    /\ line[1] \in NumberMarkers
    /\ StartsBold(line[2])
\* line.startswith("**") and line.endswith("**")
IsBoldOnly(line) == StartsBold(line[1]) /\ EndsBold(line[Len(line)])

RECURSIVE StripLeading(_)
\* line 267 on a string of tokens
StripLeading(str) ==
    IF str = <<>> THEN <<>>
    ELSE IF LeadStrip(Head(str)) = "" THEN StripLeading(Tail(str))
    ELSE <<LeadStrip(Head(str))>> \o Tail(str)

\* line 269
StripLabel(str) ==
    IF str = <<>> THEN <<>>
    ELSE IF LabelStrip(Head(str)) = "" THEN Tail(str)
    ELSE <<LabelStrip(Head(str))>> \o Tail(str)

\* line 271
StripLeadingTimestamp(str) ==
    IF str # <<>> /\ Head(str) \in TimestampTokens THEN Tail(str) ELSE str

\* clean_line.strip() of lines 265-271
CleanLine(line) == StripLeadingTimestamp(StripLabel(StripLeading(line)))

HasDescription(phase) == phase # NoPhase /\ phase.description # <<>>

\* the phase a timestamp-range line starts, bound to frame i (0 for None)
NewPhase(tok, i) ==
    LET g == RangeFields(tok)
        start_time == g[1] * 60 + g[2]
        end_time == g[3] * 60 + g[4]
    IN  [timestamp_range |-> tok,
         start_seconds |-> 100 * start_time,
         end_seconds |-> 100 * end_time,
         key_timestamp |-> format_timestamp(50 * (start_time + end_time)),
         key_timestamp_seconds |-> 50 * (start_time + end_time),
         key_frame_data |-> IF i = 0 THEN NoneValue ELSE frames[i].base64_image,
         description |-> <<>>]

\* twice key_time, in seconds
KeyTime2(tok) ==
    LET g == RangeFields(tok) IN (g[1] * 60 + g[2]) + (g[3] * 60 + g[4])

\* what no step of the call writes: its arguments, and the other invocation
ParseInputsUnchanged == UNCHANGED <<summary_text, frames, hvars>>

\* the try block with used_frame_indices kept from the call before, as a set created
\* once outside the function would be
ParseBeginKeepingUsed ==
    /\ ppc = "call"
    /\ IF summary_text.type # "str"
       THEN /\ ppc' = "except"
            /\ UNCHANGED <<lines, ln>>
       ELSE /\ lines' = Preprocess(summary_text.text)
            /\ ln' = 1
            /\ ppc' = "scan"
    /\ phases' = <<>>
    /\ UNCHANGED used_frame_indices
    /\ current_phase' = NoPhase
    /\ in_phase_section' = FALSE
    /\ UNCHANGED <<path, result>>
    /\ ParseInputsUnchanged
    /\ UNCHANGED <<svars, wvars>>

\* the try block up to the loop: the preamble patterns and the split into lines.
\* re.sub raises TypeError on a value that is not a string.
ParseBegin ==
    /\ ppc = "call"
    /\ IF summary_text.type # "str"
       THEN /\ ppc' = "except"
            /\ UNCHANGED <<lines, ln>>
       ELSE /\ lines' = Preprocess(summary_text.text)
            /\ ln' = 1
            /\ ppc' = "scan"
    /\ phases' = <<>>
    /\ used_frame_indices' = {}
    /\ current_phase' = NoPhase
    /\ in_phase_section' = FALSE
    /\ UNCHANGED <<path, result>>
    /\ ParseInputsUnchanged
    /\ UNCHANGED <<svars, wvars>>

\* the scan starting a phase at every timestamp-range line, inside the section or not
ScanLineAnywhere ==
    /\ ppc = "scan"
    /\ ln <= Len(lines)
    /\ ln' = ln + 1
    /\ LET line == lines[ln]
       IN  IF line = <<>>
           THEN UNCHANGED <<ppc, phases, current_phase, in_phase_section,
                            used_frame_indices>>
           ELSE IF HasToken(line, {PhasesHeader})
           THEN /\ in_phase_section' = TRUE
                /\ UNCHANGED <<ppc, phases, current_phase, used_frame_indices>>
           ELSE IF HasToken(line, OtherHeaders)
           THEN /\ in_phase_section' = FALSE
                /\ IF HasDescription(current_phase)
                   THEN /\ phases' = Append(phases, current_phase)
                        /\ current_phase' = NoPhase
                   ELSE UNCHANGED <<phases, current_phase>>
                /\ UNCHANGED <<ppc, used_frame_indices>>
           ELSE IF HasToken(line, RangeTokens)
           THEN LET tok == FirstRange(line)
                    found == find_closest_frame(frames, KeyTime2(tok), used_frame_indices)
                IN  /\ phases' = IF HasDescription(current_phase)
                                 THEN Append(phases, current_phase) ELSE phases
                    /\ used_frame_indices' = found.used
                    /\ IF found.raised
                       THEN /\ ppc' = "except"
                            /\ UNCHANGED current_phase
                       ELSE /\ current_phase' = NewPhase(tok, found.index)
                            /\ UNCHANGED ppc
                    /\ UNCHANGED in_phase_section
           ELSE IF current_phase # NoPhase /\ in_phase_section
                   /\ ~IsNumberedBold(line) /\ ~IsBoldOnly(line)
                   /\ CleanLine(line) # <<>>
           THEN /\ current_phase' =
                       [current_phase EXCEPT !.description = @ \o CleanLine(line)]
                /\ UNCHANGED <<ppc, phases, in_phase_section, used_frame_indices>>
           ELSE UNCHANGED <<ppc, phases, current_phase, in_phase_section,
                            used_frame_indices>>
    /\ UNCHANGED <<lines, path, result>>
    /\ ParseInputsUnchanged
    /\ UNCHANGED <<svars, wvars>>

\* one iteration of "for line in lines"
ScanLine ==
    /\ ppc = "scan"
    /\ ln <= Len(lines)
    /\ ln' = ln + 1
    /\ LET line == lines[ln]
       IN  IF line = <<>>
           THEN UNCHANGED <<ppc, phases, current_phase, in_phase_section,
                            used_frame_indices>>
           ELSE IF HasToken(line, {PhasesHeader})
           THEN /\ in_phase_section' = TRUE
                /\ UNCHANGED <<ppc, phases, current_phase, used_frame_indices>>
           ELSE IF HasToken(line, OtherHeaders)
           THEN /\ in_phase_section' = FALSE
                /\ IF HasDescription(current_phase)
                   THEN /\ phases' = Append(phases, current_phase)
                        /\ current_phase' = NoPhase
                   ELSE UNCHANGED <<phases, current_phase>>
                /\ UNCHANGED <<ppc, used_frame_indices>>
           ELSE IF HasToken(line, RangeTokens) /\ in_phase_section
           THEN LET tok == FirstRange(line)
                    found == find_closest_frame(frames, KeyTime2(tok), used_frame_indices)
                IN  /\ phases' = IF HasDescription(current_phase)
                                 THEN Append(phases, current_phase) ELSE phases
                    /\ used_frame_indices' = found.used
                    /\ IF found.raised
                       THEN /\ ppc' = "except"
                            /\ UNCHANGED current_phase
                       ELSE /\ current_phase' = NewPhase(tok, found.index)
                            /\ UNCHANGED ppc
                    /\ UNCHANGED in_phase_section
           ELSE IF current_phase # NoPhase /\ in_phase_section
                   /\ ~IsNumberedBold(line) /\ ~IsBoldOnly(line)
                   /\ CleanLine(line) # <<>>
           THEN /\ current_phase' =
                       [current_phase EXCEPT !.description = @ \o CleanLine(line)]
                /\ UNCHANGED <<ppc, phases, in_phase_section, used_frame_indices>>
           ELSE UNCHANGED <<ppc, phases, current_phase, in_phase_section,
                            used_frame_indices>>
    /\ UNCHANGED <<lines, path, result>>
    /\ ParseInputsUnchanged
    /\ UNCHANGED <<svars, wvars>>

(***************************************************************************)
(* Description post-processing (lines 283-310).                            *)
(***************************************************************************)
RECURSIVE DropRangesLedBy(_, _)
\* re.sub(r'\s*<first>\s*-\s*\d{1,2}:\d{2}\s*', ' ', desc) for the first halves given
DropRangesLedBy(desc, firsts) ==
    IF desc = <<>> THEN <<>>
    ELSE IF Len(desc) >= 3 /\ desc[1] \in firsts /\ desc[2] = "-"
            /\ desc[3] \in TimestampTokens
    THEN <<Blank>> \o DropRangesLedBy(SubSeq(desc, 4, Len(desc)), firsts)
    ELSE IF Head(desc) \in RangeTokens
    THEN <<Blank>> \o DropRangesLedBy(Tail(desc), firsts)
    ELSE <<Head(desc)>> \o DropRangesLedBy(Tail(desc), firsts)
\* patterns 1 and 2: ranged timestamps, each replaced by one blank
DropRanges(desc) == DropRangesLedBy(DropRangesLedBy(desc, TimestampTokens), Residues)
RECURSIVE StripRight(_)
\* the string without the blanks at its end
StripRight(desc) ==
    IF desc # <<>> /\ desc[Len(desc)] = Blank
    THEN StripRight(SubSeq(desc, 1, Len(desc) - 1)) ELSE desc
\* r'\s+\d{1,2}:\d{2}\s*$'
DropTrailingTimestamp(desc) ==
    LET d == StripRight(desc)
    IN  IF Len(d) >= 2 /\ d[Len(d)] \in TimestampTokens
        THEN SubSeq(d, 1, Len(d) - 1) ELSE desc
\* r'^\d{1,2}:\d{2}\s+'
DropLeadingTimestamp(desc) ==
    IF Len(desc) >= 2 /\ desc[1] \in TimestampTokens THEN Tail(desc) ELSE desc
RECURSIVE DropMiddleFrom(_, _, _)
\* r'\s+\d{1,2}:\d{2}\s+' from token k on; a match takes the blanks on both sides,
\* so the token after a dropped one has no blank left before it
DropMiddleFrom(desc, k, blank_before) ==
    IF k > Len(desc) THEN <<>>
    ELSE IF desc[k] = Blank
    THEN <<Blank>> \o DropMiddleFrom(desc, k + 1, k = 1 \/ blank_before)
    ELSE IF 1 < k /\ k < Len(desc) /\ desc[k] \in TimestampTokens /\ blank_before
    THEN DropMiddleFrom(desc, k + 1, FALSE)
    ELSE <<desc[k]>> \o DropMiddleFrom(desc, k + 1, TRUE)
DropMiddleTimestamps(desc) == DropMiddleFrom(desc, 1, FALSE)

\* desc.replace('**', ''): the blanks around a removed mark stay
UnboldAll(desc) ==
    [k \in 1..Len(desc) |-> IF Unbold(desc[k]) = "" THEN Blank ELSE Unbold(desc[k])]
RECURSIVE GluePunctuation(_, _)
\* re.sub(r'\s+([.,;:])', r'\1', desc): a token that begins with punctuation loses
\* the blanks before it
GluePunctuation(done, rest) ==
    IF rest = <<>> THEN done
    ELSE IF StartsPunctuation(Head(rest)) /\ done # <<>>
    THEN LET d == StripRight(done)
         IN  IF d = <<>> THEN GluePunctuation(<<Head(rest)>>, Tail(rest))
             ELSE GluePunctuation(SubSeq(d, 1, Len(d) - 1) \o <<d[Len(d)] \o Head(rest)>>,
                                  Tail(rest))
    ELSE GluePunctuation(Append(done, Head(rest)), Tail(rest))
\* desc[0].upper() + desc[1:]: a blank at the start stays as it is
CapitalizeFirst(desc) ==
    IF desc = <<>> THEN desc ELSE <<Capitalize(desc[1])>> \o Tail(desc)
\* desc.strip(), and the runs of blanks taken as one
StripBlanks(desc) == SelectSeq(desc, LAMBDA tok : tok # Blank)

PostProcess(desc) ==
    StripBlanks(CapitalizeFirst(GluePunctuation(<<>>, UnboldAll(DropMiddleTimestamps(
        DropLeadingTimestamp(DropTrailingTimestamp(DropRanges(desc))))))))

PostProcessPhase(phase) ==
    IF phase.description # <<>>
    THEN [phase EXCEPT !.description = PostProcess(@)]
    ELSE phase

(***************************************************************************)
(* The fallback path (lines 312-363).                                      *)
(***************************************************************************)
\* the lines extract_general_summary keeps, cleaned
RECURSIVE SummaryParts(_, _)
SummaryParts(text, parts) ==
    IF text = <<>> THEN parts
    ELSE LET line == Head(text)
             clean == StripLeading(line)
         IN  IF line = <<>> THEN SummaryParts(Tail(text), parts)
             ELSE IF IsBoldOnly(line) THEN SummaryParts(Tail(text), parts)
             ELSE IF Len(line) = 1 /\ line[1] \in NumberMarkers
                  THEN SummaryParts(Tail(text), parts)
             ELSE IF CharLen(clean) > 20
                  THEN IF CharLen(Join(Append(parts, clean), <<>>)) > 300
                       THEN Append(parts, clean)
                       ELSE SummaryParts(Tail(text), Append(parts, clean))
             ELSE SummaryParts(Tail(text), parts)

\* the raw string: its lines joined by newlines
RawString(text) == Join(text, <<"\n">>)

extract_general_summary(text) ==
    LET parts == SummaryParts(text, <<>>)
    IN  IF parts # <<>> THEN Join(parts, <<>>) ELSE Truncate(RawString(text), 300)

\* num_phases = min(5, max(3, len(frames) // 3))
NumPhases(n) == Min(5, Max(3, n \div 3))
FramesPerPhase(n) == n \div NumPhases(n)
\* start_idx, end_idx and mid_idx of group i (from 0), as Python indices
StartIdx(n, i) == i * FramesPerPhase(n)
EndIdx(n, i) == Min((i + 1) * FramesPerPhase(n), n)
\* the middle rounded up
MidIdxRoundUp(n, i) == (StartIdx(n, i) + EndIdx(n, i) + 1) \div 2
MidIdx(n, i) == (StartIdx(n, i) + EndIdx(n, i)) \div 2
\* the break test inverted: "if start_idx <= len(frames): break"
GroupsBreakInverted(n) == {i \in 0..(NumPhases(n) - 1) : \A j \in 0..i : StartIdx(n, j) > n}
\* the groups the loop reaches: it breaks at the first start_idx >= len(frames)
Groups(n) == {i \in 0..(NumPhases(n) - 1) : \A j \in 0..i : StartIdx(n, j) < n}
\* frames[k] for a Python index k
At(fs, k) == fs[k + 1]
KeyIdx(n, i) == IF MidIdx(n, i) < n THEN MidIdx(n, i) ELSE StartIdx(n, i)
EndFrameIdx(n, i) == Min(EndIdx(n, i) - 1, n - 1)

FallbackPhase(fs, text, i) ==
    LET n == Len(fs)
        start_frame == At(fs, StartIdx(n, i))
        end_frame == At(fs, EndFrameIdx(n, i))
        key_frame == At(fs, KeyIdx(n, i))
    IN  [timestamp_range |-> format_timestamp(start_frame.timestamp) \o "-"
                             \o format_timestamp(end_frame.timestamp),
         start_seconds |-> start_frame.timestamp,
         end_seconds |-> end_frame.timestamp,
         key_timestamp |-> format_timestamp(key_frame.timestamp),
         key_timestamp_seconds |-> key_frame.timestamp,
         key_frame_data |-> key_frame.base64_image,
         description |-> <<"Surgical", "procedure", "phase", ToString(i + 1) \o ".">>
                         \o Truncate(extract_general_summary(text), 100)]

\* the frames the fallback loop reads a timestamp of
FallbackReads(n) ==
    UNION {{StartIdx(n, i), EndFrameIdx(n, i), KeyIdx(n, i)} : i \in Groups(n)}

FallbackPhases(fs, text) ==
    LET n == Len(fs)
        k == Cardinality(Groups(n))
    IN  [j \in 1..k |-> FallbackPhase(fs, text, j - 1)]

FullVideo == "Full video"

\* the single phase bound to the lower of two middle frames
SinglePhaseLowerMiddle(fs, text) ==
    LET mid_frame == At(fs, (Len(fs) - 1) \div 2)
    IN  [timestamp_range |-> FullVideo,
         description |-> extract_general_summary(text),
         key_timestamp |-> IF fs # <<>> THEN format_timestamp(mid_frame.timestamp)
                           ELSE "0:00",
         key_frame_data |-> IF fs # <<>> THEN mid_frame.base64_image ELSE NoneValue]
\* the phase of lines 356-363
SinglePhase(fs, text) ==
    LET mid_frame == At(fs, Len(fs) \div 2)
    IN  [timestamp_range |-> FullVideo,
         description |-> extract_general_summary(text),
         key_timestamp |-> IF fs # <<>> THEN format_timestamp(mid_frame.timestamp)
                           ELSE "0:00",
         key_frame_data |-> IF fs # <<>> THEN mid_frame.base64_image ELSE NoneValue]

\* the end of the loop: the last phase, post-processing, and the return or the fallback
ParseFinish ==
    /\ ppc = "scan"
    /\ ln > Len(lines)
    /\ LET all == IF HasDescription(current_phase)
                  THEN Append(phases, current_phase) ELSE phases
           done == [k \in 1..Len(all) |-> PostProcessPhase(all[k])]
           n == Len(frames)
       IN  IF done # <<>>
           THEN /\ phases' = done
                /\ result' = done
                /\ path' = "structural"
                /\ ppc' = "returned"
           ELSE IF n >= 3
           THEN IF \E k \in FallbackReads(n) : ~At(frames, k).has_timestamp
                THEN /\ ppc' = "except"
                     /\ UNCHANGED <<phases, result, path>>
                ELSE /\ phases' = FallbackPhases(frames, summary_text.text)
                     /\ result' = phases'
                     /\ path' = "fallback"
                     /\ ppc' = "returned"
           ELSE IF n > 0 /\ ~At(frames, n \div 2).has_timestamp
                THEN /\ ppc' = "except"
                     /\ UNCHANGED <<phases, result, path>>
                ELSE /\ phases' = <<SinglePhase(frames, summary_text.text)>>
                     /\ result' = phases'
                     /\ path' = "single"
                     /\ ppc' = "returned"
    /\ UNCHANGED <<lines, ln, current_phase, in_phase_section, used_frame_indices>>
    /\ ParseInputsUnchanged
    /\ UNCHANGED <<svars, wvars>>

DescriptionLimit == 500

\* the phase the except block returns
FailurePhase(text) ==
    [timestamp_range |-> FullVideo,
     description |-> IF CharLen(RawString(text)) > DescriptionLimit
                     THEN Truncate(RawString(text), DescriptionLimit)
                     ELSE RawString(text),
     key_timestamp |-> "0:00"]

\* the except block: len(summary_text) raises TypeError on None
ParseExcept ==
    /\ ppc = "except"
    /\ IF summary_text.type # "str"
       THEN /\ ppc' = "raised"
            /\ UNCHANGED <<result, path>>
       ELSE /\ result' = <<FailurePhase(summary_text.text)>>
            /\ path' = "failure"
            /\ ppc' = "returned"
    /\ UNCHANGED <<lines, ln, phases, current_phase, in_phase_section, used_frame_indices>>
    /\ ParseInputsUnchanged
    /\ UNCHANGED <<svars, wvars>>

(***************************************************************************)
(* Inputs of parse_vlm_response.                                           *)
(***************************************************************************)
MaxLines == 6
MaxMarkerLines == 5
MaxDescriptionLines == 3
MaxBindingLines == 5
MaxScanFrames == 2
MaxFallbackFrames == 16

ProcedureLine == <<ProcedureHeader>>
PhasesLine == <<PhasesHeader>>
SectionLine == <<"**CLINICAL OBSERVATIONS**">>
RangeLine(tok) == <<"1.", "**Timestamp Range**:", tok>>
TextLine == <<"2.", "incision", "made">>
ClosureLine == <<"2.", "closure", "at", "1:08", "done">>
KeyLine == <<"3.", "**Key Timestamp**:", "0:23">>
GreetingLine == <<"Okay,", "ready">>
\* description lines that hold timestamps or nothing but markup
SpacedRangeLine == <<"0:23", "-", "1:08">>
NotedRangeLine == <<"note", "0:23", "-", "1:08">>
BareLabelLine == <<"Description:", "**">>
ConsecutiveLine == <<"2.", "closure", "0:23", "1:08", "done">>
PunctuatedLine == <<"2.", "closure", "(0:23)", "done">>
LeadingTimestampLine == <<"0:23", "closure">>
\* section markers on a line that also holds a timestamp range
SectionRangeLine == <<"**CLINICAL OBSERVATIONS**", "0:45-1:30">>
PhasesRangeLine == <<"**SURGICAL PHASES**", "0:00-0:45">>

ScanLines == {PhasesLine, RangeLine("0:00-0:45"), RangeLine("0:45-1:30"), TextLine}

RECURSIVE SeqsUpTo(_, _)
\* the sequences over S of length at most n
SeqsUpTo(S, n) ==
    IF n = 0 THEN {<<>>}
    ELSE LET shorter == SeqsUpTo(S, n - 1)
         IN  shorter \cup {Append(t, x) : t \in {u \in shorter : Len(u) = n - 1}, x \in S}

\* a report in the format the prompt asks for, with n phases
RECURSIVE ReportPhases(_)
ReportPhases(toks) ==
    IF toks = <<>> THEN <<>>
    ELSE <<RangeLine(Head(toks)), IF Len(toks) = 1 THEN ClosureLine ELSE TextLine, KeyLine>>
         \o ReportPhases(Tail(toks))
Report(toks) ==
    <<ProcedureLine, TextLine, PhasesLine>> \o ReportPhases(toks) \o <<SectionLine, TextLine>>
Reports ==
    LET three == <<"0:00-0:45", "0:45-1:30", "1:30-2:15">>
    IN  {Report(three), <<GreetingLine>> \o Report(three),
         Report(three) \o <<<<"**PROCEDURE-SPECIFIC**">>, TextLine>>,
         <<PhasesLine>> \o ReportPhases(three) \o <<GreetingLine>>,
         <<PhasesLine, RangeLine("0:00-0:45"), TextLine, <<"**PROCEDURE-SPECIFIC**">>>>,
         <<PhasesLine, RangeLine("0:00-0:45"), SectionLine, TextLine, PhasesLine, TextLine,
           RangeLine("0:45-1:30"), ClosureLine>>,
         <<PhasesLine, RangeLine("0:45-0:00"), TextLine>>}

\* a frame sequence as the sampler returns it, 30 s apart; frame bad (if any) has
\* no "timestamp" key
FrameSeq(n, bad) ==
    [i \in 1..n |-> [timestamp |-> (i - 1) * 3000,
                     base64_image |-> "img" \o ToString(i),
                     has_timestamp |-> i # bad]]

\* frames with the timestamps given, in hundredths of a second
FramesAt(ts) ==
    [i \in 1..Len(ts) |-> [timestamp |-> ts[i],
                           base64_image |-> "img" \o ToString(i),
                           has_timestamp |-> TRUE]]

StrText(text) == [type |-> "str", text |-> text]
NoneText == [type |-> "NoneType", text |-> <<>>]

\* every text of at most MaxLines lines over ScanLines, with few frames
ScanInputs ==
    {<<StrText(t), FrameSeq(n, 0)>> : t \in SeqsUpTo(ScanLines, MaxLines),
                                      n \in 0..MaxScanFrames}
\* the reports, with up to one frame more than they have phases
ReportInputs == {<<StrText(t), FrameSeq(n, 0)>> : t \in Reports, n \in 0..4}
\* texts that leave and re-enter the section, with ranges and text outside it
MarkerLines == {PhasesLine, SectionLine, SectionRangeLine, RangeLine("0:00-0:45"), TextLine}
MarkerInputs ==
    {<<StrText(t), FrameSeq(2, 0)>> : t \in SeqsUpTo(MarkerLines, MaxMarkerLines)}
    \cup {<<StrText(<<PhasesRangeLine, TextLine>>), FrameSeq(2, 0)>>,
          <<StrText(<<PhasesLine, RangeLine("0:00-0:45"), TextLine, PhasesRangeLine,
                      ClosureLine>>), FrameSeq(2, 0)>>}
\* texts without and with phases and None, with many frames, one of them malformed
\* sections whose description lines hold timestamps, ranges and bare markup
DescriptionLines ==
    {RangeLine("0:45-1:30"), TextLine, ClosureLine, SpacedRangeLine, NotedRangeLine,
     BareLabelLine, ConsecutiveLine, PunctuatedLine, LeadingTimestampLine}
DescriptionInputs ==
    {<<StrText(<<PhasesLine, RangeLine("0:00-0:45")>> \o t), FrameSeq(n, 0)>> :
        t \in SeqsUpTo(DescriptionLines, MaxDescriptionLines), n \in {1, 3}}
\* more ranges than frames, and frames as far from a key time as each other
BindingInputs ==
    {<<StrText(<<PhasesLine>> \o t), FramesAt(ts)>> :
        t \in SeqsUpTo({RangeLine("0:00-0:45"), RangeLine("0:45-1:30"), TextLine},
                       MaxBindingLines),
        ts \in {<<0, 4500>>, <<4500, 0>>, <<0, 4500, 4500>>}}
DegradedInputs ==
    {<<t, FrameSeq(n, bad)>> :
        t \in {NoneText, StrText(<<>>), StrText(<<TextLine, GreetingLine>>),
               StrText(<<PhasesLine, RangeLine("0:00-0:45"), TextLine>>)},
        n \in 0..MaxFallbackFrames, bad \in 0..MaxFallbackFrames}

SamplerIdle ==
    /\ ServiceIdle
    /\ RetryIdle
    /\ cap = [opened |-> FALSE, video_fps |-> 1, total_frames |-> 0]
    /\ args = [fps |-> 1, max_frames |-> NoneInt, filter_text |-> FALSE,
               filter_duplicates |-> FALSE, min_time_separation |-> 0]
    /\ pc = "idle"
    /\ frame_indices = <<>>
    /\ cand = 1
    /\ frame_interval = 0
    /\ frame_count = 0
    /\ last_read = NothingRead
    /\ frames_data = <<>>
    /\ previous_frames = <<>>
    /\ filtered_count = [text |-> 0, duplicate |-> 0, time_separation |-> 0]
    /\ last_accepted_timestamp = 0

\* the families of inputs the parser is started on
ParserInputs == <<ScanInputs, ReportInputs, DegradedInputs, MarkerInputs,
                  DescriptionInputs, BindingInputs>>

ParserInit ==
    /\ \E k \in 1..Len(ParserInputs) : \E in \in ParserInputs[k] :
         /\ summary_text = in[1]
         /\ frames = in[2]
    /\ ppc = "call"
    /\ lines = <<>>
    /\ ln = 0
    /\ phases = <<>>
    /\ current_phase = NoPhase
    /\ in_phase_section = FALSE
    /\ used_frame_indices = {}
    /\ path = "none"
    /\ result = <<>>
    /\ SamplerIdle
    /\ HarnessIdle

ParserNext ==
    \/ ParseBegin
    \/ ScanLine
    \/ ParseFinish
    \/ ParseExcept

ParserSpec == ParserInit /\ [][ParserNext]_vars

(***************************************************************************)
(* Two invocations of parse_vlm_response.  Every name the function writes  *)
(* is a local of the call (phases and used_frame_indices are created at    *)
(* lines 163-164, current_phase and in_phase_section at 198-199), and      *)
(* find_closest_frame is handed the set of its caller.  An invocation is   *)
(* therefore its locals; a thread switch suspends the locals of one        *)
(* invocation and resumes those of the other.  Each invocation is called   *)
(* twice with the same arguments: the first calls run alone, one after     *)
(* the other, and the second calls run interleaved.                        *)
(***************************************************************************)
MaxSwitches == 3

Invocations == {1, 2}
Other(i) == 3 - i
NoOutcome == <<>>
Finished(at) == at \in {"returned", "raised"}

\* the locals of the running invocation
Locals ==
    [summary_text |-> summary_text, frames |-> frames, ppc |-> ppc, lines |-> lines,
     ln |-> ln, phases |-> phases, current_phase |-> current_phase,
     in_phase_section |-> in_phase_section, used_frame_indices |-> used_frame_indices,
     path |-> path, result |-> result]

\* an invocation not yet begun: its arguments are bound, its locals are not
Called(text, fs) ==
    [summary_text |-> text, frames |-> fs, ppc |-> "call", lines |-> <<>>, ln |-> 0,
     phases |-> <<>>, current_phase |-> NoPhase, in_phase_section |-> FALSE,
     used_frame_indices |-> {}, path |-> "none", result |-> <<>>]

\* what the caller of an invocation sees
Outcome(locals) == [ppc |-> locals.ppc, path |-> locals.path, result |-> locals.result]

SoloStage == \E i \in Invocations : alone[i] = NoOutcome

\* the caller of the running invocation has its first outcome and calls again with
\* the same arguments; whatever the first call left behind is still there
Recall ==
    /\ running \in Invocations
    /\ Finished(ppc)
    /\ alone[running] = NoOutcome
    /\ alone' = [alone EXCEPT ![running] = Outcome(Locals)]
    /\ ppc' = "call"
    /\ path' = "none"
    /\ result' = <<>>
    /\ UNCHANGED <<summary_text, frames, lines, ln, phases, current_phase,
                   in_phase_section, used_frame_indices>>
    /\ UNCHANGED <<running, suspended, switches, overlapped>>
    /\ UNCHANGED <<svars, wvars>>

\* when the scheduler may switch: between the first calls, and anywhere in the second
\* calls while the other invocation has steps left
MaySwitch ==
    /\ running \in Invocations
    /\ ~Finished(suspended.ppc)
    /\ IF SoloStage
       THEN alone[running] # NoOutcome /\ ppc = "call"
       ELSE switches < MaxSwitches

InCall(at) == at \in {"scan", "except"}

\* a switch with used_frame_indices outside the locals: one set for both invocations
SwitchSharingUsed ==
    /\ MaySwitch
    /\ suspended' = Locals
    /\ summary_text' = suspended.summary_text
    /\ frames' = suspended.frames
    /\ ppc' = suspended.ppc
    /\ lines' = suspended.lines
    /\ ln' = suspended.ln
    /\ phases' = suspended.phases
    /\ current_phase' = suspended.current_phase
    /\ in_phase_section' = suspended.in_phase_section
    /\ UNCHANGED used_frame_indices
    /\ path' = suspended.path
    /\ result' = suspended.result
    /\ running' = Other(running)
    /\ switches' = IF SoloStage THEN switches ELSE switches + 1
    /\ overlapped' = (overlapped \/ (InCall(ppc) /\ InCall(suspended.ppc)))
    /\ UNCHANGED alone
    /\ UNCHANGED <<svars, wvars>>

\* the running invocation is suspended and the other one resumed
Switch ==
    /\ MaySwitch
    /\ suspended' = Locals
    /\ summary_text' = suspended.summary_text
    /\ frames' = suspended.frames
    /\ ppc' = suspended.ppc
    /\ lines' = suspended.lines
    /\ ln' = suspended.ln
    /\ phases' = suspended.phases
    /\ current_phase' = suspended.current_phase
    /\ in_phase_section' = suspended.in_phase_section
    /\ used_frame_indices' = suspended.used_frame_indices
    /\ path' = suspended.path
    /\ result' = suspended.result
    /\ running' = Other(running)
    /\ switches' = IF SoloStage THEN switches ELSE switches + 1
    /\ overlapped' = (overlapped \/ (InCall(ppc) /\ InCall(suspended.ppc)))
    /\ UNCHANGED alone
    /\ UNCHANGED <<svars, wvars>>

\* the responses of the two invocations
CallTexts ==
    {StrText(<<PhasesLine, RangeLine("0:00-0:45"), TextLine, RangeLine("0:45-1:30"),
               TextLine>>),
     StrText(<<PhasesLine, RangeLine("0:45-1:30"), TextLine, RangeLine("0:45-1:30"),
               ClosureLine>>),
     StrText(<<TextLine>>),
     NoneText}
CallFrames == {FrameSeq(n, 0) : n \in 0..(MaxScanFrames + 1)} \cup {FrameSeq(2, 1)}

TwoCallsInit ==
    /\ \E t1 \in CallTexts, f1 \in CallFrames,
          t2 \in CallTexts, f2 \in {FrameSeq(2, 0), FrameSeq(3, 0)} :
         /\ summary_text = t1
         /\ frames = f1
         /\ suspended = Called(t2, f2)
    /\ ppc = "call"
    /\ lines = <<>>
    /\ ln = 0
    /\ phases = <<>>
    /\ current_phase = NoPhase
    /\ in_phase_section = FALSE
    /\ used_frame_indices = {}
    /\ path = "none"
    /\ result = <<>>
    /\ running = 1
    /\ alone = [i \in Invocations |-> NoOutcome]
    /\ switches = 0
    /\ overlapped = FALSE
    /\ SamplerIdle

TwoCallsNext ==
    \/ ParseBegin
    \/ ScanLine
    \/ ParseFinish
    \/ ParseExcept
    \/ Recall
    \/ Switch

TwoCallsSpec == TwoCallsInit /\ [][TwoCallsNext]_vars

(***************************************************************************)
(* The video routes (ui/api/routes/video.py) over the metadata store       *)
(* (ui/local_storage.py), with the background task of an upload.           *)
(***************************************************************************)
MaxFaults == 1

Endpoints == {"get_video", "get_video_status", "get_vlm_results",
              "refine_phase_description", "get_phase_key_frame",
              "get_alternative_keyframes", "update_phase_keyframe",
              "generate_surgical_report"}
PhaseEndpoints == {"refine_phase_description", "get_phase_key_frame",
                   "get_alternative_keyframes", "update_phase_keyframe"}
\* the routes whose handler has "except HTTPException: raise" before "except Exception"
ReRaisesHTTPException == Endpoints \ {"get_video_status", "get_vlm_results"}

\* the metadata upload_video saves
Uploaded == [status |-> "uploaded", processed |-> FALSE, vlm_phases |-> FALSE,
             error_message |-> FALSE]

\* update_metadata: the stored metadata after the call; ok is FALSE when the read or
\* the write inside fails and the function returns False
update_metadata(meta, updates, ok) ==
    IF meta = NoMetadata \/ ~ok THEN meta
    ELSE [f \in DOMAIN meta |-> IF f \in DOMAIN updates THEN updates[f] ELSE meta[f]]

\* the outcomes update_metadata may have here
WriteOutcomes == IF faults < MaxFaults THEN {TRUE, FALSE} ELSE {TRUE}
Written(ok) == faults' = IF ok THEN faults ELSE faults + 1
ServiceOnly == UNCHANGED <<svars, pvars, hvars, rvars>>

\* POST /upload: valid is FALSE for a content type that is not a video
upload_video(v, valid) ==
    /\ store[v] = NoMetadata
    /\ task[v] = "none"
    /\ IF valid
       THEN /\ store' = [store EXCEPT ![v] = Uploaded]
            /\ task' = [task EXCEPT ![v] = "scheduled"]
            /\ response' = [endpoint |-> "upload_video", video_id |-> v,
                            found |-> FALSE, code |-> 200]
       ELSE /\ response' = [endpoint |-> "upload_video", video_id |-> v,
                            found |-> FALSE, code |-> 500]
            /\ UNCHANGED <<store, task>>
    /\ UNCHANGED faults
    /\ ServiceOnly

\* process_video_with_vlm, line 44
TaskStart(v, ok) ==
    /\ task[v] = "scheduled"
    /\ store' = [store EXCEPT ![v] = update_metadata(@, [status |-> "processing"], ok)]
    /\ task' = [task EXCEPT ![v] = "running"]
    /\ Written(ok)
    /\ UNCHANGED response
    /\ ServiceOnly

\* run_vlm_inference_pipeline reaches its step 5 and returns
PipelineReturn(v, ok) ==
    /\ task[v] = "running"
    /\ store[v] # NoMetadata
    /\ store' = [store EXCEPT ![v] =
                    update_metadata(@, [vlm_phases |-> TRUE, processed |-> TRUE,
                                        status |-> "completed"], ok)]
    /\ task' = [task EXCEPT ![v] = "ended"]
    /\ Written(ok)
    /\ UNCHANGED response
    /\ ServiceOnly

\* a step of run_vlm_inference_pipeline raises: its except block, and the raise
PipelineExcept(v, ok) ==
    /\ task[v] = "running"
    /\ store' = [store EXCEPT ![v] =
                    update_metadata(@, [status |-> "error", error_message |-> TRUE,
                                        processed |-> FALSE], ok)]
    /\ task' = [task EXCEPT ![v] = "raised"]
    /\ Written(ok)
    /\ UNCHANGED response
    /\ ServiceOnly

\* the except block of process_video_with_vlm
TaskExcept(v, ok) ==
    /\ task[v] = "raised"
    /\ store' = [store EXCEPT ![v] =
                    update_metadata(@, [status |-> "error", error_message |-> TRUE], ok)]
    /\ task' = [task EXCEPT ![v] = "ended"]
    /\ Written(ok)
    /\ UNCHANGED response
    /\ ServiceOnly

\* the try block of a route: the status code it returns, or raises as HTTPException;
\* works is FALSE when a later step of the route fails with another exception
Body(ep, meta, works) ==
    IF meta = NoMetadata THEN [raised |-> "HTTPException", code |-> 404]
    ELSE IF ep = "get_vlm_results"
    THEN IF ~meta.processed
         THEN [raised |-> "none", code |-> IF meta.status = "error" THEN 500 ELSE 202]
         ELSE [raised |-> "none", code |-> 200]
    ELSE IF ep \in PhaseEndpoints /\ ~meta.vlm_phases
    THEN [raised |-> "HTTPException", code |-> 404]
    ELSE IF ep = "generate_surgical_report" /\ ~meta.vlm_phases
    THEN [raised |-> "HTTPException", code |-> 400]
    ELSE IF ep \notin {"get_video", "get_video_status"} /\ ~works
    THEN [raised |-> "Exception", code |-> 500]
    ELSE [raised |-> "none", code |-> 200]

\* the except clauses of the route
Respond(ep, body) ==
    IF body.raised = "HTTPException" /\ ep \notin ReRaisesHTTPException THEN 500
    ELSE body.code

\* a request to one of the routes that look the metadata up
Request(ep, v, works) ==
    /\ response' = [endpoint |-> ep, video_id |-> v, found |-> store[v] # NoMetadata,
                    code |-> Respond(ep, Body(ep, store[v], works))]
    /\ UNCHANGED <<store, task, faults>>
    /\ ServiceOnly

ServiceInit == SamplerIdle /\ ParserIdle

ServiceNext ==
    \/ \E v \in VideoIds, valid \in BOOLEAN : upload_video(v, valid)
    \/ \E v \in VideoIds, ok \in WriteOutcomes : TaskStart(v, ok)
    \/ \E v \in VideoIds, ok \in WriteOutcomes : PipelineReturn(v, ok)
    \/ \E v \in VideoIds, ok \in WriteOutcomes : PipelineExcept(v, ok)
    \/ \E v \in VideoIds, ok \in WriteOutcomes : TaskExcept(v, ok)
    \/ \E ep \in Endpoints, v \in VideoIds, works \in BOOLEAN : Request(ep, v, works)

ServiceSpec == ServiceInit /\ [][ServiceNext]_vars

(***************************************************************************)
(* The retry loop of OpenRouterVLM.analyze_video_frames (lines 86-121).    *)
(***************************************************************************)
max_retries == 5
base_delay == 2

\* str(e) of the errors the API client may raise
RateLimitMessages == {"Error code: 429", "Rate limit exceeded", "Failed to generate"}
OtherMessages == {"Error code: 401", "Connection error"}
\* "429" in error_str or "rate" in error_str.lower()
IsRateLimit(msg) ==
    \/ msg \in {"Error code: 429"}
    \/ msg \in {"Rate limit exceeded", "Failed to generate"}

\* a delay growing by base_delay with every attempt
DelayLinear(n) == base_delay * (n + 1)
\* base_delay * (2 ** attempt)
Delay(n) == base_delay * 2 ^ n

RetryOnly == UNCHANGED <<svars, pvars, hvars, uvars>>

\* the call of analyze_video_frames, up to the retry loop
Invoke ==
    /\ rpc = "idle"
    /\ rpc' = "loop"
    /\ UNCHANGED <<attempt, calls, slept, errors>>
    /\ RetryOnly

\* an iteration whose API call returns: break, and the function returns
CallSucceeds ==
    /\ rpc = "loop"
    /\ attempt < max_retries
    /\ calls' = calls + 1
    /\ rpc' = "returned"
    /\ UNCHANGED <<attempt, slept, errors>>
    /\ RetryOnly

\* an iteration whose API call raises an error with message msg
CallFails(msg) ==
    /\ rpc = "loop"
    /\ attempt < max_retries
    /\ calls' = calls + 1
    /\ errors' = Append(errors, msg)
    /\ IF IsRateLimit(msg) /\ attempt < max_retries - 1
       THEN /\ slept' = Append(slept, Delay(attempt))
            /\ attempt' = attempt + 1
            /\ rpc' = "loop"
       ELSE /\ rpc' = "raised"
            /\ UNCHANGED <<attempt, slept>>
    /\ RetryOnly

RetryInit == ParserIdle /\ SamplerIdle

RetryNext ==
    \/ Invoke
    \/ CallSucceeds
    \/ \E msg \in RateLimitMessages \cup OtherMessages : CallFails(msg)

RetrySpec == RetryInit /\ [][RetryNext]_vars

(***************************************************************************)
(* Properties of extract_frames_from_video.                                *)
(***************************************************************************)
Returned == pc = "returned"
Gaps == 1..(Len(frames_data) - 1)

\* C1: in every returned sequence, adjacent frames are at least min_time_separation
\* apart: timestamp[i+1] - timestamp[i] >= min_time_separation, on the timestamps the
\* frames carry (hundredths of a second against ticks).
C1_AdjacentSeparation ==
    Returned =>
        \A i \in Gaps :
            (frames_data[i + 1].timestamp - frames_data[i].timestamp) * TicksPerSecond
                >= args.min_time_separation * 100

\* C1, on exact timestamps: the frame positions accepted are min_time_separation apart.
\* This is what the comparison against last_accepted_timestamp guarantees.
C1_ExactSeparation ==
    \A i \in Gaps :
        Timestamp(frames_data[i + 1].frame_number) - Timestamp(frames_data[i].frame_number)
            >= args.min_time_separation

\* C2: with max_frames = N supplied, N >= 0, the returned sequence has at most N frames.
C2_AtMostMaxFrames ==
    Returned /\ args.max_frames # NoneInt => Len(frames_data) <= args.max_frames

\* C3: with filter_duplicates, no two frames of the sequence have a histogram
\* correlation above the threshold, whichever their distance in the sequence.
C3_NoSimilarPair ==
    args.filter_duplicates =>
        \A i \in 1..Len(frames_data) : \A j \in 1..Len(frames_data) :
            i # j => ~Similar(frames_data[i].base64_image.hist,
                              frames_data[j].base64_image.hist)

\* C3 witness: two frames or more are accepted and the frame just read was rejected
\* as a duplicate of the first one, being no duplicate of the last one.
C3_Witness ==
    /\ args.filter_duplicates
    /\ Len(frames_data) >= 2
    /\ filtered_count = [text |-> 0, duplicate |-> 1, time_separation |-> 0]
    /\ last_read.raster # NoRaster
    /\ last_read.pos > frames_data[Len(frames_data)].frame_number
    /\ Verdict(Timestamp(last_read.pos), last_read.raster) = "duplicate"
    /\ Similar(last_read.raster.hist, frames_data[1].base64_image.hist)
    /\ ~Similar(last_read.raster.hist, frames_data[Len(frames_data)].base64_image.hist)

(***************************************************************************)
(* Properties of parse_vlm_response.                                       *)
(***************************************************************************)
Parsed == ppc = "returned"
IsText == summary_text.type = "str"
\* every supplied frame carries the timestamp the parser reads
SoundFrames == \A f \in 1..Len(frames) : frames[f].has_timestamp
HasKeyFrame(phase) == "key_frame_data" \in DOMAIN phase /\ phase.key_frame_data # NoneValue

\* C4: when the parsing steps hit an internal error, the call returns exactly one phase
\* (timestamp_range "Full video", the raw response cut to 500 characters as
\* description, no key frame) and no exception reaches the caller.
C4_TotalFailureReturnsOnePhase ==
    /\ ppc # "raised"
    /\ Parsed /\ path = "failure" =>
          /\ Len(result) = 1
          /\ result[1].timestamp_range = FullVideo
          /\ result[1].description =
                 IF CharLen(RawString(summary_text.text)) > 500
                 THEN Truncate(RawString(summary_text.text), 500)
                 ELSE RawString(summary_text.text)
          /\ ~HasKeyFrame(result[1])

\* C5: for every response text and every frame sequence, the call raises nothing and
\* the phase list it returns is not empty.
C5_NonEmptyPhaseList ==
    IsText => /\ ppc # "raised"
              /\ Parsed => result # <<>>

\* C5 witness: the degraded path taken with no frame at all.
C5_Witness == Parsed /\ IsText /\ frames = <<>> /\ path = "single" /\ Len(result) = 1

IsHeaderLine(line) == HasToken(line, OtherHeaders \cup {PhasesHeader})
IsPhasesLine(line) == HasToken(line, {PhasesHeader})
PhasesAt(text) == {k \in 1..Len(text) : IsPhasesLine(text[k])}
\* the SURGICAL PHASES section: the lines from the marker to the next section marker
SectionOf(text) ==
    LET s == CHOOSE k \in PhasesAt(text) : TRUE
        later == {k \in (s + 1)..Len(text) : IsHeaderLine(text[k])}
        e == IF later = {} THEN Len(text) + 1
             ELSE CHOOSE k \in later : \A j \in later : k <= j
    IN  SubSeq(text, s + 1, e - 1)
\* the section without its key-timestamp lines
SectionBody(text) == SelectSeq(SectionOf(text), LAMBDA line : line # KeyLine)
IsRangeLine(line) == \E tok \in RangeTokens : line = RangeLine(tok)
\* a well-formed response: one SURGICAL PHASES section, made of timestamp-range
\* lines each followed by a description line
WellFormed(text) ==
    /\ Cardinality(PhasesAt(text)) = 1
    /\ LET b == SectionBody(text)
       IN  /\ Len(b) >= 2
           /\ Len(b) % 2 = 0
           /\ \A k \in 1..(Len(b) \div 2) :
                 /\ IsRangeLine(b[2 * k - 1])
                 /\ b[2 * k] \in {TextLine, ClosureLine}
ExpectedRanges(text) ==
    LET b == SectionBody(text) IN [k \in 1..(Len(b) \div 2) |-> b[2 * k - 1][3]]

RoundTrip(text) ==
    LET want == ExpectedRanges(text)
    IN  /\ path = "structural"
        /\ Len(result) = Len(want)
        /\ \A k \in 1..Len(want) :
              /\ result[k].timestamp_range = want[k]
              /\ result[k].description # <<>>
        /\ Len(frames) >= Len(want) =>
              \A i \in 1..Len(want) : \A j \in 1..Len(want) :
                  i # j => result[i].key_frame_data # result[j].key_frame_data

\* C6: a well-formed response with n timestamp-range lines, each followed by a
\* description line, gives exactly n phases in text order, with those ranges, non-empty
\* descriptions, and pairwise distinct key frames when at least n frames are supplied.
C6_WellFormedRoundTrip ==
    Parsed /\ IsText /\ SoundFrames /\ WellFormed(summary_text.text)
        => RoundTrip(summary_text.text)

\* C6, for the responses in which no line beginning with **PROCEDURE follows the
\* SURGICAL PHASES marker: the round trip holds.
C6_RoundTripWithoutLaterProcedure ==
    /\ Parsed /\ IsText /\ SoundFrames /\ WellFormed(summary_text.text)
    /\ \A k \in 1..Len(summary_text.text) :
          IsProcedureLine(summary_text.text[k]) =>
              \A s \in PhasesAt(summary_text.text) : k < s
    => RoundTrip(summary_text.text)

KeyFramesOf(phs) == {phs[k].key_frame_data : k \in 1..Len(phs)}

\* C7: among the phases the structural path returns, two share a key frame only if
\* every supplied frame is the key frame of some returned phase.
C7_SharedOnlyWhenAllUsed ==
    Parsed /\ path = "structural" =>
        \A i \in 1..Len(result) : \A j \in 1..Len(result) :
            i # j /\ result[i].key_frame_data = result[j].key_frame_data =>
                \A f \in 1..Len(frames) : frames[f].base64_image \in KeyFramesOf(result)

\* C8: with at least one frame supplied, every phase of the structural path has a
\* key frame.
C8_EveryPhaseHasKeyFrame ==
    Parsed /\ path = "structural" /\ frames # <<>> =>
        \A k \in 1..Len(result) : HasKeyFrame(result[k])

\* C8 witness: the structural path returns more phases than there are frames.
C8_Witness ==
    /\ Parsed /\ path = "structural"
    /\ frames # <<>>
    /\ Len(result) > Len(frames)

Clamp(x, lo, hi) == IF x < lo THEN lo ELSE IF x > hi THEN hi ELSE x

\* C9: with no structural phase and n >= 3 frames, the fallback returns
\* k = clamp(n // 3, 3, 5) phases, phase i for the i-th of k consecutive groups of
\* n // k frames: its start and end are the timestamps of the group's first and last
\* frame and its key frame is the group's middle frame, so the key frames differ.
C9_FallbackGroups ==
    Parsed /\ Len(frames) >= 3 /\ path \notin {"structural", "failure"} =>
        LET n == Len(frames)
            k == Clamp(n \div 3, 3, 5)
            size == n \div k
            first(i) == (i - 1) * size + 1
            last(i) == i * size
        IN  /\ path = "fallback"
            /\ Len(result) = k
            /\ \A i \in 1..k :
                  /\ result[i].start_seconds = frames[first(i)].timestamp
                  /\ result[i].end_seconds = frames[last(i)].timestamp
                  /\ result[i].key_frame_data = frames[first(i) + size \div 2].base64_image
                  /\ first(i) + size \div 2 \in first(i)..last(i)
            /\ \A i \in 1..k : \A j \in 1..k :
                  i # j => result[i].key_frame_data # result[j].key_frame_data

\* C9 witness: the fallback with five groups of more than one frame.
C9_Witness == Parsed /\ path = "fallback" /\ Len(result) = 5 /\ Len(frames) >= 10

\* C10: with n >= 3 frames and no section marker in the response, the fallback phases
\* cover the frames: the first phase starts at the first frame's timestamp, the last
\* ends at the last frame's, and every frame lies in some phase.
C10_FallbackCoversFrames ==
    Parsed /\ path = "fallback" =>
        /\ result[1].start_seconds = frames[1].timestamp
        /\ result[Len(result)].end_seconds = frames[Len(frames)].timestamp
        /\ \A f \in 1..Len(frames) : \E k \in 1..Len(result) :
              /\ result[k].start_seconds <= frames[f].timestamp
              /\ frames[f].timestamp <= result[k].end_seconds

\* C10, for the frame counts that are a multiple of the number of groups.
C10_CoversWhenDivisible ==
    Parsed /\ path = "fallback" /\ Len(frames) % Len(result) = 0 =>
        /\ result[1].start_seconds = frames[1].timestamp
        /\ result[Len(result)].end_seconds = frames[Len(frames)].timestamp

HasSeconds(phase) == {"start_seconds", "end_seconds"} \subseteq DOMAIN phase

\* C11: every returned phase that has start_seconds and end_seconds (structural and
\* fallback path) has start_seconds <= end_seconds, whichever range the pattern
\* accepted.
C11_StartBeforeEnd ==
    Parsed =>
        \A k \in 1..Len(result) :
            HasSeconds(result[k]) => result[k].start_seconds <= result[k].end_seconds

\* C11, for the fallback path alone: the groups run forwards over the frames.
C11_FallbackStartBeforeEnd ==
    Parsed /\ path = "fallback" =>
        \A k \in 1..Len(result) : result[k].start_seconds <= result[k].end_seconds

\* C12: the phases of the structural path have non-decreasing start_seconds in the
\* order emitted.
C12_NonDecreasingStarts ==
    Parsed /\ path = "structural" =>
        \A i \in 1..Len(result) : \A j \in 1..Len(result) :
            i < j => result[i].start_seconds <= result[j].start_seconds

(***************************************************************************)
(* More properties of extract_frames_from_video.                           *)
(***************************************************************************)
Raised == pc = "raised"
Rejections == filtered_count.text + filtered_count.duplicate + filtered_count.time_separation

\* C13: a video that cannot be opened makes the call fail with no frame returned,
\* and a run whose candidates were all rejected by the filters does not fail: it
\* returns a sequence of length zero.
C13_OpenFailureOnlyFatal ==
    /\ ~cap.opened /\ pc \notin {"call", "idle"} => Raised /\ frames_data = <<>>
    /\ Rejections > 0 => ~Raised

\* C13 witness: a call returns no frame, every candidate having been rejected.
C13_Witness ==
    /\ Returned
    /\ frames_data = <<>>
    /\ Rejections >= 2
    /\ filtered_count.text >= 1

\* C14: a video that opens never makes the call fail, in capped mode and in rate mode.
C14_OpenedNeverRaises == cap.opened => ~Raised

\* C14, for capped mode alone.
C14_CappedNeverRaises == cap.opened /\ Truthy(args.max_frames) => ~Raised

\* C15: the timestamps of a returned sequence are >= 0 and strictly increasing, and
\* no frame position is returned twice.
C15_StrictlyIncreasing ==
    Returned =>
        /\ \A i \in 1..Len(frames_data) : frames_data[i].timestamp >= 0
        /\ \A i \in Gaps :
              /\ frames_data[i].timestamp < frames_data[i + 1].timestamp
              /\ frames_data[i].frame_number # frames_data[i + 1].frame_number

\* C15, weakened: the timestamps never decrease.
C15_NonDecreasing ==
    \A i \in Gaps : frames_data[i].timestamp <= frames_data[i + 1].timestamp

InLoop == pc \in {"capped", "rate"}
RastersOf(fd) == [k \in 1..Len(fd) |-> fd[k].base64_image]

\* C18, the retained rasters: one per accepted frame when dedup is on, none when off.
C18_Retained ==
    previous_frames = IF args.filter_duplicates THEN RastersOf(frames_data) ELSE <<>>

\* C18, one step of the pipeline: a rejection leaves the accepted frames,
\* last_accepted_timestamp and the retained rasters as they were; an acceptance appends
\* one frame, sets last_accepted_timestamp to its timestamp and retains its raster
\* only if filter_duplicates.
C18_Step ==
    InLoop =>
        IF frames_data' # frames_data
        THEN LET accepted == frames_data'[Len(frames_data')]
             IN  /\ frames_data' = Append(frames_data, accepted)
                 /\ last_accepted_timestamp' = Timestamp(accepted.frame_number)
                 /\ previous_frames' = IF args.filter_duplicates
                                       THEN Append(previous_frames, accepted.base64_image)
                                       ELSE previous_frames
                 /\ filtered_count' = filtered_count
        ELSE UNCHANGED <<last_accepted_timestamp, previous_frames>>

\* C18: in the acceptance pipeline only an acceptance changes the accepted frames,
\* last_accepted_timestamp and the retained rasters, and the retained rasters are
\* those of the accepted frames when dedup is on and none when it is off.
C18_OnlyAcceptanceChangesState == [](C18_Retained) /\ [][C18_Step]_vars

\* C18 witness: a frame is accepted and retained, and a candidate has been rejected at
\* each of the steps that count rejections.
C18_Witness ==
    /\ args.filter_duplicates
    /\ Len(frames_data) >= 1
    /\ Len(previous_frames) = Len(frames_data)
    /\ filtered_count.text >= 1
    /\ filtered_count.duplicate >= 1
    /\ filtered_count.time_separation >= 1

\* C19: a decode failure never ends the run: a call returns only when the cap is
\* reached or the candidates are exhausted, which in rate mode is the end of the video.
C19_DecodeFailureNeverEndsRun ==
    Returned =>
        IF Truthy(args.max_frames)
        THEN cand > Len(frame_indices) \/ Len(frames_data) >= args.max_frames
        ELSE frame_count >= cap.total_frames

\* C19, for capped mode alone.
C19_CappedContinues ==
    Returned /\ Truthy(args.max_frames) =>
        cand > Len(frame_indices) \/ Len(frames_data) >= args.max_frames

\* C20: in capped mode the candidates are max_frames x multiplier positions equally
\* spaced over the frame count (multiplier 5 with a filter on, else 2); one is kept
\* exactly when it lies at least int(min_time_separation x native_fps) frames after
\* the candidate kept before it, so the kept list starts at 0, never decreases and has
\* every consecutive gap at least that interval.  The list is built once, before the
\* first candidate is read, and is checked there.
C20_CandidatePositions ==
    pc = "capped" /\ cand = 1 =>
        LET count == args.max_frames
                       * (IF args.filter_text \/ args.filter_duplicates THEN 5 ELSE 2)
            position(i) == (i * cap.total_frames) \div count
            interval == (args.min_time_separation * cap.video_fps) \div TicksPerSecond
            kept == frame_indices
        IN  /\ kept # <<>> /\ kept[1] = 0
            /\ Len(kept) <= count
            /\ \A k \in 1..Len(kept) : \E i \in 0..(count - 1) : kept[k] = position(i)
            /\ \A k \in 1..(Len(kept) - 1) :
                  kept[k + 1] >= kept[k] /\ kept[k + 1] - kept[k] >= interval
            /\ \A i \in 0..(count - 1) :
                  \/ \E k \in 1..Len(kept) : kept[k] = position(i)
                  \/ \E k \in 1..Len(kept) :
                        kept[k] <= position(i) /\ position(i) - kept[k] < interval
            /\ interval = 0 => Len(kept) = count

\* C20 witness: candidates are dropped for lying too close, and more than one is kept.
C20_Witness ==
    /\ pc = "capped"
    /\ min_frame_interval >= 2
    /\ Len(frame_indices) >= 2
    /\ Len(frame_indices) < candidate_count

(***************************************************************************)
(* Properties of two invocations of parse_vlm_response.                    *)
(***************************************************************************)
SecondCallDone == running \in Invocations /\ ~SoloStage /\ Finished(ppc)

\* C16: a second call of parse_vlm_response on the same response text and the same
\* frames returns the phase list the first call returned, with the same ranges,
\* descriptions and key frames: nothing of the first call survives into the second.
C16_RerunSameOutcome ==
    SecondCallDone /\ switches = 0 => Outcome(Locals) = alone[running]

\* C16 witness: a second call, run in one piece, has returned structural phases bound
\* to key frames, fewer frames than phases having been supplied.
C16_Witness ==
    /\ SecondCallDone
    /\ switches = 0
    /\ path = "structural"
    /\ Len(result) = 2
    /\ Len(frames) = 2
    /\ used_frame_indices = {1, 2}
    /\ result = alone[running].result

\* C17: two invocations whose steps interleave, each with its own frames, end with
\* the outcomes they have when each runs alone.
C17_InterleavedSameOutcomes ==
    SecondCallDone /\ Finished(suspended.ppc) /\ switches >= 1 =>
        /\ Outcome(Locals) = alone[running]
        /\ Outcome(suspended) = alone[Other(running)]

\* C17 witness: both invocations have returned structural phases with key frames after
\* a switch that left both in the middle of their calls.
C17_Witness ==
    /\ SecondCallDone
    /\ Finished(suspended.ppc)
    /\ overlapped
    /\ switches = MaxSwitches
    /\ path = "structural" /\ suspended.path = "structural"
    /\ used_frame_indices # {} /\ suspended.used_frame_indices # {}
    /\ result # suspended.result

(***************************************************************************)
(* More properties of parse_vlm_response.                                  *)
(***************************************************************************)
HeadersAt(text) == {k \in 1..Len(text) : IsHeaderLine(text[k])}
\* the lines that are neither blank nor a greeting
Content(text) == SelectSeq(text, LAMBDA line : line # <<>> /\ ~IsGreeting(line))
\* the text from its first section header on
FromFirstHeader(text) ==
    LET h == CHOOSE k \in HeadersAt(text) : \A j \in HeadersAt(text) : k <= j
    IN  SubSeq(text, h, Len(text))
IsSuffix(t, u) == Len(t) <= Len(u) /\ t = SubSeq(u, Len(u) - Len(t) + 1, Len(u))
JustPreprocessed == ppc = "scan" /\ ln = 1

\* C21: preprocessing removes only preamble: every line from the first section header
\* on, greetings apart, reaches the scan unchanged and in order, also when headers
\* beginning with **PROCEDURE follow the SURGICAL PHASES section.
C21_OnlyPreambleRemoved ==
    JustPreprocessed /\ HeadersAt(summary_text.text) # {} =>
        IsSuffix(Content(FromFirstHeader(summary_text.text)), Content(lines))

\* C21, for the texts whose first section header is followed by no line beginning
\* with **PROCEDURE.
C21_WithoutLaterProcedure ==
    /\ JustPreprocessed /\ HeadersAt(summary_text.text) # {}
    /\ \A k \in 1..Len(summary_text.text) :
          IsProcedureLine(summary_text.text[k]) =>
              \A h \in HeadersAt(summary_text.text) : k <= h
    => IsSuffix(Content(FromFirstHeader(summary_text.text)), Content(lines))

\* a step of the scan over a line that is not blank
ScanStep == ppc = "scan" /\ ln <= Len(lines) /\ ln' = ln + 1 /\ lines[ln] # <<>>

\* C22, one line of the scan: outside the SURGICAL PHASES section a line without a
\* marker changes neither the phase list, the open phase nor the consumed frames; a
\* line with a section marker only sets the section, closing the open phase at most,
\* even when it holds a timestamp range.
C22_Step ==
    ScanStep =>
        LET line == lines[ln]
        IN  IF IsHeaderLine(line)
            THEN /\ in_phase_section' = IsPhasesLine(line)
                 /\ used_frame_indices' = used_frame_indices
                 /\ current_phase' \in {current_phase, NoPhase}
                 /\ \/ phases' = phases
                    \/ HasDescription(current_phase)
                         /\ phases' = Append(phases, current_phase)
                 /\ IsPhasesLine(line) => UNCHANGED <<phases, current_phase>>
            ELSE ~in_phase_section =>
                     UNCHANGED <<phases, current_phase, used_frame_indices,
                                 in_phase_section>>

\* C22: the scanner starts phases and collects description text only inside the
\* SURGICAL PHASES section, and a line with a section marker is a marker only.
C22_OnlyInPhasesSection == [][C22_Step]_vars

\* C22 witness: after a phase was emitted at a marker line that also held a range, a
\* timestamp-range line outside the section has been scanned and nothing was started.
C22_Witness ==
    /\ ppc = "scan" /\ ln > 2
    /\ lines[ln - 1] = RangeLine("0:00-0:45")
    /\ lines[ln - 2] = SectionRangeLine
    /\ ~in_phase_section
    /\ Len(phases) = 1
    /\ current_phase = NoPhase
    /\ Cardinality(used_frame_indices) = 1

\* a line that adds text to the description of the open phase
AddsText(line) ==
    /\ ~HasToken(line, RangeTokens)
    /\ ~IsNumberedBold(line)
    /\ ~IsBoldOnly(line)
    /\ CleanLine(line) # <<>>

RECURSIVE EmittedFrom(_, _, _, _, _)
\* the ranges of the phases the rule of C23 emits from line k on: open is the range
\* of the open phase (<<>> for none), described whether it has collected text
EmittedFrom(text, k, inside, open, described) ==
    LET closed == IF open # <<>> /\ described THEN open ELSE <<>>
    IN  IF k > Len(text) THEN closed
        ELSE LET line == text[k]
             IN  IF line = <<>>
                 THEN EmittedFrom(text, k + 1, inside, open, described)
                 ELSE IF IsPhasesLine(line)
                 THEN EmittedFrom(text, k + 1, TRUE, open, described)
                 ELSE IF IsHeaderLine(line)
                 THEN closed \o EmittedFrom(text, k + 1, FALSE, <<>>, FALSE)
                 ELSE IF ~inside
                 THEN EmittedFrom(text, k + 1, inside, open, described)
                 ELSE IF HasToken(line, RangeTokens)
                 THEN closed \o EmittedFrom(text, k + 1, inside, <<FirstRange(line)>>, FALSE)
                 ELSE EmittedFrom(text, k + 1, inside, open,
                                  described \/ (open # <<>> /\ AddsText(line)))

RangesOf(ps) == [k \in 1..Len(ps) |-> ps[k].timestamp_range]

\* C23: the structural phases returned are, in order and once each, the phases opened
\* by a timestamp-range line that had collected a description when the next range
\* line, the next other-section marker or the end of the text was reached; a phase
\* whose description was empty at that point is not among them.
C23_EmittedExactlyOnce ==
    Parsed /\ IsText /\ SoundFrames =>
        LET want == EmittedFrom(lines, 1, FALSE, <<>>, FALSE)
        IN  IF want = <<>> THEN path # "structural"
            ELSE path = "structural" /\ RangesOf(result) = want

\* C23, for the texts in which no section marker is met while the open phase has an
\* empty description.
C23_WithoutEmptyPhaseAtMarker ==
    /\ Parsed /\ IsText /\ SoundFrames
    /\ \A k \in 2..Len(lines) :
          IsHeaderLine(lines[k]) /\ ~IsPhasesLine(lines[k]) =>
              ~HasToken(lines[k - 1], RangeTokens)
    => LET want == EmittedFrom(lines, 1, FALSE, <<>>, FALSE)
       IN  IF want = <<>> THEN path # "structural"
           ELSE path = "structural" /\ RangesOf(result) = want

Structural == Parsed /\ IsText /\ SoundFrames /\ path = "structural"

\* C24: every phase the structural path returns has a non-empty description after
\* post-processing (when post-processing empties them the fallback path would have
\* been taken, so no such phase is returned).
C24_DescriptionsNonEmpty ==
    Structural => \A k \in 1..Len(result) : result[k].description # <<>>

\* C24, before post-processing: every phase the scan hands over has collected text.
C24_ScannedDescriptionsNonEmpty ==
    ppc = "scan" => \A k \in 1..Len(phases) : phases[k].description # <<>>

\* the token holds a timestamp D{1,2}:DD, alone, in a range or next to punctuation
HoldsTimestamp(tok) == tok \in TimestampTokens \cup RangeTokens \cup {"(0:23)"}

\* C25: no description returned by the structural path holds a timestamp token, at
\* its start, at its end or embedded.
C25_NoTimestampInDescription ==
    Structural =>
        \A k \in 1..Len(result) : \A tok \in {"0:23", "1:08", "(0:23)"} \cup RangeTokens :
            ~HasToken(result[k].description, {tok})

\* C25, for the sections whose description lines hold one timestamp each, with words
\* on both sides or at the end of the line.
C25_SingleTimestampsRemoved ==
    /\ Structural
    /\ \A k \in 1..Len(lines) :
          lines[k] \in {PhasesLine, TextLine, ClosureLine, KeyLine, NotedRangeLine}
                       \cup {RangeLine(tok) : tok \in RangeTokens}
    => \A k \in 1..Len(result) :
          \A j \in 1..Len(result[k].description) :
              ~HoldsTimestamp(result[k].description[j])

\* twice the distance of frame i from the key time of the range the line holds
Distance2(i, line) == Abs(2 * frames[i].timestamp - 100 * KeyTime2(FirstRange(line)))
\* frame i is nearest to the key time among the frames of among, and the first such
NearestIn(i, among, line) ==
    /\ i \in among
    /\ \A j \in among :
          \/ Distance2(i, line) < Distance2(j, line)
          \/ Distance2(i, line) = Distance2(j, line) /\ i <= j

\* a step of the scan that binds a frame to the phase a range line starts
BindingStep ==
    /\ ScanStep /\ in_phase_section /\ SoundFrames /\ frames # <<>>
    /\ ~IsHeaderLine(lines[ln])
    /\ HasToken(lines[ln], RangeTokens)

\* C26, one binding: with a frame not yet consumed, the nearest such frame (the
\* lowest index on ties) is bound and exactly its index is added to the consumed
\* set; with every frame consumed the nearest frame of all is bound and the set
\* stays as it is.
C26_Step ==
    BindingStep =>
        LET free == (1..Len(frames)) \ used_frame_indices
        IN  IF free # {}
            THEN \E i \in free :
                    /\ NearestIn(i, free, lines[ln])
                    /\ used_frame_indices' = used_frame_indices \cup {i}
                    /\ current_phase'.key_frame_data = frames[i].base64_image
            ELSE \E i \in 1..Len(frames) :
                    /\ NearestIn(i, 1..Len(frames), lines[ln])
                    /\ used_frame_indices' = used_frame_indices
                    /\ current_phase'.key_frame_data = frames[i].base64_image

\* C26: find_closest_frame binds the nearest unconsumed frame and consumes it, falls
\* back to the nearest frame of all once every frame is consumed, and over the
\* bindings of one parse the consumed set only grows and stays within the frames.
C26_NearestUnconsumed ==
    /\ [][C26_Step /\ used_frame_indices \subseteq used_frame_indices']_vars
    /\ [](ppc = "scan" => used_frame_indices \subseteq 1..Len(frames))

\* C26 witness: two frames as far from the key time as each other, the first bound
\* first; both consumed, and a third range bound to the first frame again.
C26_Witness ==
    /\ ppc = "scan"
    /\ Len(frames) = 2 /\ frames[1].timestamp = 4500 /\ frames[2].timestamp = 0
    /\ used_frame_indices = {1, 2}
    /\ Len(phases) = 2
    /\ phases[1].key_frame_data = "img1"
    /\ phases[2].key_frame_data = "img2"
    /\ current_phase # NoPhase /\ current_phase.key_frame_data = "img1"

\* the end of a scan that found no phase, with fewer than 3 sound frames
FewFramesNoPhase ==
    /\ ppc = "scan" /\ ln > Len(lines) /\ ppc' # "scan"
    /\ phases = <<>> /\ ~HasDescription(current_phase)
    /\ Len(frames) < 3 /\ SoundFrames

\* C27, the return step: exactly one phase spanning the whole video, bound to the
\* frame at index len // 2 (to none when there is no frame), and no failure path.
C27_Step ==
    FewFramesNoPhase =>
        /\ ppc' = "returned" /\ path' = "single"
        /\ Len(result') = 1
        /\ result'[1].timestamp_range = "Full video"
        /\ IF frames = <<>>
           THEN result'[1].key_frame_data = NoneValue /\ result'[1].key_timestamp = "0:00"
           ELSE LET mid == frames[(Len(frames) \div 2) + 1]
                IN  /\ result'[1].key_frame_data = mid.base64_image
                    /\ result'[1].key_timestamp = format_timestamp(mid.timestamp)

\* C27: when the scan yields no phase and 0, 1 or 2 frames are supplied, the call
\* returns one phase spanning the whole video whose key frame is the middle frame
\* (index len // 2), or none for no frames, without entering the failure path.
C27_SinglePhaseForFewFrames == [][C27_Step]_vars

\* C27 witness: two frames and no phase found; the single phase holds the second.
C27_Witness ==
    /\ Parsed /\ path = "single"
    /\ Len(frames) = 2
    /\ Len(result) = 1
    /\ result[1].key_frame_data = frames[2].base64_image
    /\ result[1].key_timestamp = "0:30"

(***************************************************************************)
(* Properties of the video routes.                                         *)
(***************************************************************************)
StatusMoves == {<<"none", "uploaded">>, <<"uploaded", "processing">>,
                <<"processing", "completed">>, <<"processing", "error">>}
C28_Ended ==
    \A v \in VideoIds :
        /\ task[v] = "ended" => store[v].status \in {"completed", "error"}
        /\ store[v].processed <=> (store[v].status = "completed" /\ store[v].vlm_phases)
C28_Step ==
    \A v \in VideoIds :
        \/ store'[v].status = store[v].status
        \/ <<store[v].status, store'[v].status>> \in StatusMoves

\* C28: after the background task of an uploaded video has ended the stored status is
\* "completed" or "error", never "processing"; the status moves only uploaded ->
\* processing -> completed | error; and processed is true exactly when the status is
\* "completed" and vlm_phases is stored.
C28_StatusLifecycle == [](C28_Ended) /\ [][C28_Step]_vars

\* C28, while every update_metadata call has succeeded.
C28_WithReliableStore ==
    /\ [](faults = 0 => C28_Ended)
    /\ [][faults' = 0 => C28_Step]_vars

\* C30: a route that looks up the metadata of a video id for which none exists answers
\* with 404 (and never with 500).
C30_MissingIs404 ==
    response.endpoint \in Endpoints /\ ~response.found => response.code = 404

\* C30, for the routes whose handler re-raises HTTPException.
C30_ReRaisingRoutes ==
    response.endpoint \in ReRaisesHTTPException /\ ~response.found => response.code = 404

(***************************************************************************)
(* Properties of analyze_video_frames.                                     *)
(***************************************************************************)
RECURSIVE Doubling(_, _)
\* n delays, each twice the one before, from first on
Doubling(first, n) ==
    IF n = 0 THEN <<>> ELSE <<first>> \o Doubling(2 * first, n - 1)

\* C29: analyze_video_frames calls the model API at most 5 times; every error but the
\* last was recognised as a rate limit and was followed by a wait of 2, 4, 8, 16
\* seconds in turn; an error that is not a rate limit is raised at once; the rate
\* limit error is raised after the 5th failed call; a success is the last call.
C29_AtMostFiveCalls ==
    /\ calls <= 5
    /\ slept = Doubling(2, Len(slept))
    /\ \A k \in 1..Len(errors) : k < calls => IsRateLimit(errors[k])
    /\ rpc = "loop" => Len(errors) = calls /\ Len(slept) = calls /\ calls < 5
    /\ rpc = "returned" => Len(errors) = calls - 1 /\ Len(slept) = calls - 1
    /\ rpc = "raised" =>
          /\ Len(errors) = calls /\ Len(slept) = calls - 1
          /\ IsRateLimit(errors[calls]) => calls = 5

\* C29 witness: five calls met the rate limit; the waits were 2, 4, 8 and 16 seconds
\* and the fifth error was raised.
C29_Witness ==
    /\ rpc = "raised"
    /\ calls = 5
    /\ slept = <<2, 4, 8, 16>>
    /\ \A k \in 1..5 : errors[k] \in RateLimitMessages

====
